---- MODULE Spec2Model ----
(***************************************************************************)
(* alertbot: alert classification and routing engine (src/app.py).         *)
(*                                                                         *)
(* Python values are modelled as follows.                                  *)
(*   - a str is a sequence of one-character strings; a name the code only  *)
(*     compares as a whole (a field, an operator, a profile) is written as *)
(*     one element, <<"status">>;                                          *)
(*   - a scalar or list read from YAML/JSON is a record [t, s, n, l]:      *)
(*     t is the Python type ("none", "str", "int", "list"), s the text of  *)
(*     a str, n the number of an int, l the elements of a list; the tag    *)
(*     "absent" marks a key a dict does not hold, so d.get(k) on it is     *)
(*     None;                                                               *)
(*   - a dict with a known key set is a record over those keys whose       *)
(*     missing keys are Absent.                                            *)
(* A call that raises returns [exc |-> <exception>], a call that returns   *)
(* normally [exc |-> "none", val |-> <value>].                             *)
(***************************************************************************)
EXTENDS Integers, Sequences, FiniteSets, TLC

VARIABLES
    settings,   \* Settings(): the environment-provided values
    _routes,    \* the routing configuration bound at import (_load_routes())
    call,       \* the function applied last, with its arguments
    ret,        \* what that call returned
    telegram,   \* the requests posted to the Telegram API, in order
    axiom,      \* the queries posted to the Axiom query API, in order
    stop_event, \* lifespan's asyncio.Event: TRUE once it is set
    auto_task   \* the task running _auto_attach_notifiers_loop

vars == <<settings, _routes, call, ret, telegram, axiom, stop_event, auto_task>>

\* no task: lifespan has not created one
NoTask == [pc |-> "none", passes |-> 0, failed |-> 0, cancelling |-> FALSE]

----------------------------------------------------------------------------
(* Bounds of the model *)

\* longest generated alert string (service name, context value)
MaxLen == 2
\* longest route list of a generated configuration
MaxRoutes == 2
\* longest drop list and longest p1 list of a generated configuration
MaxRules == 2
\* longest profile list of a service and longest list of profile names
MaxProfiles == 2

----------------------------------------------------------------------------
(* Python values *)

Absent == [t |-> "absent", s |-> <<>>, n |-> 0, l |-> <<>>]
PyNone == [t |-> "none", s |-> <<>>, n |-> 0, l |-> <<>>]
PyStr(s) == [t |-> "str", s |-> s, n |-> 0, l |-> <<>>]
PyInt(n) == [t |-> "int", s |-> <<>>, n |-> n, l |-> <<>>]
PyList(l) == [t |-> "list", s |-> <<>>, n |-> 0, l |-> l]

\* d.get(k): None when the key is missing
Get(v) == IF v.t = "absent" THEN PyNone ELSE v

\* bool(v) is False
Falsy(v) ==
    \/ v.t \in {"absent", "none"}
    \/ v.t = "str" /\ v.s = <<>>
    \/ v.t = "int" /\ v.n = 0
    \/ v.t = "list" /\ v.l = <<>>

Digit(d) ==
    CASE d = 0 -> "0" [] d = 1 -> "1" [] d = 2 -> "2" [] d = 3 -> "3"
      [] d = 4 -> "4" [] d = 5 -> "5" [] d = 6 -> "6" [] d = 7 -> "7"
      [] d = 8 -> "8" [] d = 9 -> "9"

RECURSIVE NatStr(_)
NatStr(n) == IF n < 10 THEN <<Digit(n)>> ELSE NatStr(n \div 10) \o <<Digit(n % 10)>>

\* str(n) of an int
IntStr(n) == IF n < 0 THEN <<"-">> \o NatStr(0 - n) ELSE NatStr(n)

\* repr() of a list element
Repr(v) ==
    CASE v.t = "str" -> <<"'">> \o v.s \o <<"'">>
      [] v.t = "int" -> IntStr(v.n)
      [] OTHER -> <<"N", "o", "n", "e">>

RECURSIVE JoinRepr(_)
JoinRepr(l) ==
    IF l = <<>> THEN <<>>
    ELSE IF Len(l) = 1 THEN Repr(l[1])
    ELSE Repr(l[1]) \o <<",", " ">> \o JoinRepr(Tail(l))

\* str(v)
Str(v) ==
    CASE v.t = "str" -> v.s
      [] v.t = "int" -> IntStr(v.n)
      [] v.t = "list" -> <<"[">> \o JoinRepr(v.l) \o <<"]">>
      [] OTHER -> <<"N", "o", "n", "e">>

\* int(s) of a decimal digit string
DigitVal(c) ==
    CASE c = "0" -> 0 [] c = "1" -> 1 [] c = "2" -> 2 [] c = "3" -> 3
      [] c = "4" -> 4 [] c = "5" -> 5 [] c = "6" -> 6 [] c = "7" -> 7
      [] c = "8" -> 8 [] c = "9" -> 9

RECURSIVE ParseNat(_)
ParseNat(s) ==
    IF Len(s) = 1 THEN DigitVal(s[1])
    ELSE 10 * ParseNat(SubSeq(s, 1, Len(s) - 1)) + DigitVal(s[Len(s)])

----------------------------------------------------------------------------
(* Python str operations *)

\* the characters the model uses, in code point order
CodePoints ==
    << " ", "#", "'", "(", ")", ",", "-", ".", "0", "1", "2", "3", "4",
       "5", "6", "7", "8", "9", ":", "@", "A", "B", "C", "D", "E", "F", "G",
       "H", "I", "J", "K", "L", "M", "N", "O", "P", "Q", "R", "S", "T",
       "U", "V", "W", "X", "Y", "Z", "[", "]", "_", "a", "b", "c", "d",
       "e", "f", "g", "h", "i", "j", "k", "l", "m", "n", "o", "p", "q",
       "r", "s", "t", "u", "v", "w", "x", "y", "z", "{", "}", "<em dash>" >>

\* the rank of each character in code point order (str comparison needs
\* only the order of ord(c), not its value)
OrdTable ==
    [c \in {CodePoints[i] : i \in 1..Len(CodePoints)} |->
        CHOOSE i \in 1..Len(CodePoints) : CodePoints[i] = c]

Ord(c) == OrdTable[c]

\* the lower-case form of each character: A-Z map to a-z
LowerTable ==
    [c \in DOMAIN OrdTable |->
        IF OrdTable["A"] <= OrdTable[c] /\ OrdTable[c] <= OrdTable["Z"]
        THEN CodePoints[OrdTable[c] + (OrdTable["a"] - OrdTable["A"])]
        ELSE c]

\* c.lower()
LowerChar(c) == LowerTable[c]

\* s.lower()
lower(s) == [i \in 1..Len(s) |-> LowerChar(s[i])]

\* needle in hay
In(needle, hay) ==
    \E i \in 0..(Len(hay) - Len(needle)) :
        SubSeq(hay, i + 1, i + Len(needle)) = needle

\* hay.startswith(prefix)
startswith(hay, prefix) ==
    /\ Len(prefix) <= Len(hay)
    /\ SubSeq(hay, 1, Len(prefix)) = prefix

\* a < b on str
RECURSIVE StrLess(_, _)
StrLess(a, b) ==
    IF b = <<>> THEN FALSE
    ELSE IF a = <<>> THEN TRUE
    ELSE IF a[1] = b[1] THEN StrLess(Tail(a), Tail(b))
    ELSE Ord(a[1]) < Ord(b[1])

\* sorted(S) of a set of str
RECURSIVE sorted(_)
sorted(S) ==
    IF S = {} THEN <<>>
    ELSE LET m == CHOOSE x \in S : \A y \in S \ {x} : StrLess(x, y)
         IN  <<m>> \o sorted(S \ {m})

----------------------------------------------------------------------------
(* Routing configuration (routes.yml) *)

\* a dict of the configuration that holds no key
EmptyDict == [k \in {} |-> Absent]

\* d.get(key, default) on a dict keyed by str
DictGet(d, key, default) ==
    IF key.t = "str" /\ key.s \in DOMAIN d THEN d[key.s] ELSE default

\* a route's "match" mapping; present = FALSE when the route has no "match"
\* key, team stands for a key _match_route does not know
MatchBlock(service, host, monitor, team) ==
    [present |-> TRUE, service |-> service, host |-> host,
     monitor |-> monitor, team |-> team]

NoMatchBlock ==
    [present |-> FALSE, service |-> Absent, host |-> Absent,
     monitor |-> Absent, team |-> Absent]

Route(match, group, topic) == [match |-> match, group |-> group, topic |-> topic]

\* the document of a missing or empty routes.yml: _load_routes() returns {}
EmptyConfig ==
    [keys |-> {}, groups |-> EmptyDict, topics |-> EmptyDict, routes |-> <<>>,
     default_group |-> Absent, default_topic |-> Absent,
     drop |-> Absent,
     profiles |-> [t |-> "absent", d |-> EmptyDict],
     services |-> [t |-> "absent", d |-> EmptyDict],
     defaults |-> [t |-> "absent", runbook |-> Absent],
     tags |-> [t |-> "absent", user_impact |-> Absent, service_errors |-> Absent]]

\* not _routes
NoRoutes == _routes.keys = {}

----------------------------------------------------------------------------
(* Route resolution *)

\* route.get("match", {}): the keys of the mapping, each with its pattern
route_match(route) ==
    IF route.match.present THEN route.match
    ELSE MatchBlock(Absent, Absent, Absent, Absent)

\* _match_route without the .lower() calls
match_route_case_sensitive(rules, services, hosts, monitor) ==
    /\ rules.service.t # "absent" =>
           \E s \in services : In(Str(rules.service), s)
    /\ rules.host.t # "absent" =>
           \E h \in hosts : In(Str(rules.host), h)
    /\ rules.monitor.t # "absent" => In(Str(rules.monitor), monitor)

\* _match_route(rules, services=, hosts=, monitor=)
_match_route(rules, services, hosts, monitor) ==
    /\ rules.service.t # "absent" =>
           \E s \in services : In(lower(Str(rules.service)), lower(s))
    /\ rules.host.t # "absent" =>
           \E h \in hosts : In(lower(Str(rules.host)), lower(h))
    /\ rules.monitor.t # "absent" =>
           In(lower(Str(rules.monitor)), lower(monitor))

\* the (chat_id, topic_id) returned for group name gname and topic name tname
Target(gname, tname) ==
    [chat_id |-> Str(DictGet(_routes.groups, gname, PyStr(<<>>))),
     topic_id |-> DictGet(_routes.topics, tname, PyNone)]

\* _routes.get("default_group", "") and _routes.get("default_topic", "")
DefaultGroup ==
    IF _routes.default_group.t = "absent" THEN PyStr(<<>>) ELSE _routes.default_group

DefaultTopic ==
    IF _routes.default_topic.t = "absent" THEN PyStr(<<>>) ELSE _routes.default_topic

\* the return of resolve_target for a route that matched
RouteTarget(route) ==
    Target(IF route.group.t = "absent" THEN DefaultGroup ELSE route.group,
           IF route.topic.t = "absent" THEN DefaultTopic ELSE route.topic)

\* the for loop of resolve_target from route i on, and the lines after it
RECURSIVE resolve_from(_, _, _, _)
resolve_from(i, services, hosts, monitor) ==
    IF i > Len(_routes.routes) THEN Target(DefaultGroup, DefaultTopic)
    ELSE IF _match_route(route_match(_routes.routes[i]), services, hosts, monitor)
         THEN RouteTarget(_routes.routes[i])
         ELSE resolve_from(i + 1, services, hosts, monitor)

\* the same loop keeping the last matching route instead of the first
RECURSIVE resolve_last_from(_, _, _, _)
resolve_last_from(i, services, hosts, monitor) ==
    IF i < 1 THEN Target(DefaultGroup, DefaultTopic)
    ELSE IF _match_route(route_match(_routes.routes[i]), services, hosts, monitor)
         THEN RouteTarget(_routes.routes[i])
         ELSE resolve_last_from(i - 1, services, hosts, monitor)

\* the destination when no routes.yml is loaded (TELEGRAM_CHAT_ID/TOPIC_ID)
EnvTarget ==
    [chat_id |-> settings.telegram_chat_id,
     topic_id |-> IF settings.telegram_topic_id # <<>>
                  THEN PyInt(ParseNat(settings.telegram_topic_id))
                  ELSE PyNone]

\* resolve_target in which the last matching route wins
resolve_target_last_match(services, hosts, monitor) ==
    IF NoRoutes THEN EnvTarget
    ELSE resolve_last_from(Len(_routes.routes), services, hosts, monitor)

\* resolve_target(services=, hosts=, monitor=)
resolve_target(services, hosts, monitor) ==
    IF NoRoutes THEN EnvTarget
    ELSE resolve_from(1, services, hosts, monitor)

----------------------------------------------------------------------------
(* Calls and returns *)

Returns(v) == [exc |-> "none", val |-> v]
Raises(e) == [exc |-> e, val |-> FALSE]

NoCall == [fn |-> "none"]

----------------------------------------------------------------------------
(* Inputs of the routing specification *)

S_api == <<"a", "p", "i">>
S_api_gateway == <<"a", "p", "i", "-", "g", "a", "t", "e", "w", "a", "y">>
S_worker == <<"w", "o", "r", "k", "e", "r">>
S_Ab == <<"A", "b">>
S_b == <<"b">>
S_g0 == <<"g", "0">>
S_g1 == <<"g", "1">>
S_g2 == <<"g", "2">>
S_t0 == <<"t", "0">>
S_t1 == <<"t", "1">>
S_t2 == <<"t", "2">>

\* the sets of a pool that have at most n elements
UpTo(pool, n) == {S \in SUBSET pool : Cardinality(S) <= n}

\* the sequences over a pool that have at most n elements
RECURSIVE SeqsUpTo(_, _)
SeqsUpTo(pool, n) ==
    IF n = 0 THEN {<<>>}
    ELSE LET shorter == SeqsUpTo(pool, n - 1)
         IN  shorter \cup {Append(q, x) : q \in {r \in shorter : Len(r) = n - 1}, x \in pool}

\* service names of an alert (local_alert may pass an empty one)
ServiceSets == UpTo({S_api_gateway, S_worker, S_Ab, S_b, <<>>}, 2)
HostSets == {{}, {<<"B">>}, {<<"a">>, <<"B">>}}
Monitors == {<<>>, <<"A", "b", " ", "5", "0", "0">>, S_worker}

\* the routes configurations are built from
RoutePool ==
    { Route(MatchBlock(PyStr(S_api), Absent, Absent, Absent), PyStr(S_g1), PyStr(S_t1)),
      Route(MatchBlock(PyStr(<<"A">>), Absent, Absent, Absent), PyStr(S_g2), PyStr(S_t2)),
      Route(MatchBlock(PyStr(<<"a">>), PyStr(<<"b">>), Absent, Absent), PyStr(S_g1), PyStr(S_t2)),
      Route(MatchBlock(Absent, Absent, PyStr(<<"a", "B">>), Absent), PyStr(S_g2), PyStr(S_t1)),
      Route(MatchBlock(Absent, PyStr(<<>>), Absent, PyStr(<<"x">>)), PyStr(S_g2), Absent),
      Route(NoMatchBlock, Absent, PyStr(S_t1)) }

Groups ==
    [k \in {S_g0, S_g1, S_g2} |->
        IF k = S_g0 THEN PyInt(-1000) ELSE IF k = S_g1 THEN PyInt(-1001) ELSE PyStr(<<"@", "o", "p", "s">>)]

Topics ==
    [k \in {S_t0, S_t1, S_t2} |->
        IF k = S_t0 THEN PyInt(10) ELSE IF k = S_t1 THEN PyInt(11) ELSE PyInt(12)]

\* validated routing documents: every group and topic reference resolves
RouteConfigs ==
    { [EmptyConfig EXCEPT
          !.keys = {"groups", "topics", "routes", "default_group"} \cup
                   (IF dt.t = "absent" THEN {} ELSE {"default_topic"}),
          !.groups = Groups, !.topics = Topics, !.routes = rs,
          !.default_group = PyStr(S_g0), !.default_topic = dt] :
        rs \in SeqsUpTo(RoutePool, MaxRoutes), dt \in {PyStr(S_t0), Absent} }

\* environment of a deployment that has no routes.yml
EnvSettings ==
    { [telegram_chat_id |-> c, telegram_topic_id |-> t] :
        c \in {<<>>, <<"-", "4", "2">>}, t \in {<<>>, <<"7">>} }

DefaultSettings == [telegram_chat_id |-> <<>>, telegram_topic_id |-> <<>>]

----------------------------------------------------------------------------
(* Routing specification: resolve_target and _match_route applied to the
   routes of a loaded configuration *)

InitRoute ==
    /\ \/ _routes \in RouteConfigs /\ settings = DefaultSettings
       \/ _routes = EmptyConfig /\ settings \in EnvSettings
    /\ call = NoCall
    /\ ret = Returns(FALSE)
    /\ telegram = <<>>
    /\ axiom = <<>>
    /\ stop_event = FALSE
    /\ auto_task = NoTask

Call_resolve_target ==
    /\ call = NoCall
    /\ \E services \in ServiceSets, hosts \in HostSets, monitor \in Monitors :
        /\ call' = [fn |-> "resolve_target", services |-> services,
                    hosts |-> hosts, monitor |-> monitor]
        /\ ret' = Returns(resolve_target(services, hosts, monitor))
        /\ UNCHANGED <<settings, _routes, telegram, axiom, stop_event, auto_task>>

Call_match_route ==
    /\ call = NoCall
    /\ \E i \in 1..Len(_routes.routes) :
      \E services \in ServiceSets, hosts \in HostSets, monitor \in Monitors :
        /\ call' = [fn |-> "_match_route", rules |-> route_match(_routes.routes[i]),
                    services |-> services, hosts |-> hosts, monitor |-> monitor]
        /\ ret' = Returns(_match_route(route_match(_routes.routes[i]),
                                       services, hosts, monitor))
        /\ UNCHANGED <<settings, _routes, telegram, axiom, stop_event, auto_task>>

NextRoute == Call_resolve_target \/ Call_match_route

SpecRoute == InitRoute /\ [][NextRoute]_vars

----------------------------------------------------------------------------
(* Claims about route resolution *)

\* the routes of the configuration that match the arguments of the call
MatchingRoutes ==
    {i \in 1..Len(_routes.routes) :
        _match_route(route_match(_routes.routes[i]), call.services, call.hosts, call.monitor)}

\* C1: with a routing configuration present, resolve_target returns the
\* destination of the first route in declared order whose match block
\* matches, whatever later routes match, and the chat id of default_group
\* with the topic id of default_topic when no route matches.
C1_FirstMatchWins ==
    (call.fn = "resolve_target" /\ ~NoRoutes) =>
        IF MatchingRoutes = {}
        THEN ret = Returns(Target(DefaultGroup, DefaultTopic))
        ELSE LET first == CHOOSE i \in MatchingRoutes : \A j \in MatchingRoutes : i <= j
             IN  ret = Returns(RouteTarget(_routes.routes[first]))

\* a call in which two routes match, the later one on more keys than the
\* earlier, and the destination is the earlier one's and not the later one's
C1_Witness ==
    /\ call.fn = "resolve_target"
    /\ ~NoRoutes
    /\ MatchingRoutes = {1, 2}
    /\ _routes.routes[1].match.host.t = "absent"
    /\ _routes.routes[2].match.host.t = "str"
    /\ _routes.routes[2].match.service.t = "str"
    /\ RouteTarget(_routes.routes[1]) # RouteTarget(_routes.routes[2])
    /\ ret = Returns(RouteTarget(_routes.routes[1]))

\* p occurs in s when case is ignored: some stretch of s spells p
CiInfix(p, s) ==
    \E i \in 1..(Len(s) + 1) : \E j \in (i - 1)..Len(s) :
        /\ j - i + 1 = Len(p)
        /\ \A k \in 1..Len(p) : LowerChar(s[i + k - 1]) = LowerChar(p[k])

\* C2: a route matches iff every key present in its match block passes a
\* case-insensitive substring test (service/host: some element of the set
\* contains the pattern; monitor: the monitor string contains it); the route
\* {service: "api"} matches {"api-gateway"} and not {"worker"}, and an empty
\* set never satisfies a service or host key.
C2_MatchIffAllKeys ==
    call.fn = "_match_route" =>
        /\ ret.val =
              /\ \A key \in {"service", "host"} :
                    call.rules[key].t = "str" =>
                        \E x \in (IF key = "service" THEN call.services ELSE call.hosts) :
                            CiInfix(call.rules[key].s, x)
              /\ call.rules.monitor.t = "str" =>
                    CiInfix(call.rules.monitor.s, call.monitor)
        /\ (call.rules.service = PyStr(S_api) /\ call.rules.host.t = "absent"
              /\ call.rules.monitor.t = "absent") =>
                /\ call.services = {S_api_gateway} => ret.val
                /\ call.services = {S_worker} => ~ret.val
        /\ (call.rules.service.t = "str" /\ call.services = {}) => ~ret.val
        /\ (call.rules.host.t = "str" /\ call.hosts = {}) => ~ret.val

\* the route {service: "A"} matched services {"api-gateway"}: the pattern
\* occurs only when case is ignored
C2_Witness ==
    /\ call.fn = "_match_route"
    /\ call.rules.service = PyStr(<<"A">>)
    /\ call.services = {S_api_gateway}
    /\ ret.val

----------------------------------------------------------------------------
(* Rule matching *)

\* a rule mapping {match?, field?, op?, value?}; t = "str" is a list item
\* that is no mapping.  match is the value under "match": t = "dict" with
\* its own field, op and value, t = "absent" when the rule has no such key,
\* any other t a value that is no mapping.
Rule(match, field, op, value) ==
    [t |-> "dict", match |-> match, field |-> field, op |-> op, value |-> value]

NoMatchKey == [t |-> "absent", field |-> Absent, op |-> Absent, value |-> Absent]
MatchDict(field, op, value) == [t |-> "dict", field |-> field, op |-> op, value |-> value]
MatchScalar == [t |-> "str", field |-> Absent, op |-> Absent, value |-> Absent]

\* a list item that is a string, not a mapping
NotARule == [t |-> "str", match |-> NoMatchKey, field |-> Absent, op |-> Absent, value |-> Absent]

\* [str(v) for v in value if v is not None]
RECURSIVE StrEach(_)
StrEach(l) ==
    IF l = <<>> THEN <<>>
    ELSE IF l[1].t = "none" THEN StrEach(Tail(l))
    ELSE <<Str(l[1])>> \o StrEach(Tail(l))

\* _to_list that wraps None like any other scalar
to_list_wraps_none(value) ==
    IF value.t = "list" THEN StrEach(value.l) ELSE <<Str(Get(value))>>

\* _to_list(value)
_to_list(value) ==
    IF value.t \in {"none", "absent"} THEN <<>>
    ELSE IF value.t = "list" THEN StrEach(value.l)
    ELSE <<Str(value)>>

\* re.compile(pattern) succeeds.  Patterns are written with literal
\* characters, "." (any character) and "(" (opens a group): a "(" is never
\* closed, which re rejects with re.error.
RegexCompiles(pattern) == \A k \in 1..Len(pattern) : pattern[k] # "("

\* re.search(pattern, actual) finds a match of a pattern that compiles
RegexSearch(pattern, actual) ==
    \E i \in 0..(Len(actual) - Len(pattern)) :
        \A k \in 1..Len(pattern) : pattern[k] = "." \/ pattern[k] = actual[i + k]

\* the elements of a list
Elems(l) == {l[i] : i \in 1..Len(l)}

\* match_op whose contains branch tests a prefix instead of a substring
match_op_contains_prefix(op, actual_values, expected_values) ==
    LET first == IF expected_values # <<>> THEN expected_values[1] ELSE <<>>
    IN  IF op = PyStr(<<"contains">>)
        THEN Returns(\E actual \in Elems(actual_values) : startswith(actual, first))
        ELSE Returns(FALSE)

\* the branch of _match_rule taken for operator op once both value lists
\* are built
match_op(op, actual_values, expected_values) ==
    LET first == IF expected_values # <<>> THEN expected_values[1] ELSE <<>>
        is(name) == op.t = "str" /\ op.s = <<name>>
    IN  IF is("contains")
        THEN Returns(\E actual \in Elems(actual_values) : In(first, actual))
        ELSE IF is("contains_any")
        THEN Returns(\E actual \in Elems(actual_values) :
                        \E needle \in Elems(expected_values) : In(needle, actual))
        ELSE IF is("regex")
        THEN IF RegexCompiles(first)
             THEN Returns(\E actual \in Elems(actual_values) : RegexSearch(first, actual))
             ELSE Raises("re.error")
        ELSE IF is("in")
        THEN Returns(\E actual \in Elems(actual_values) :
                        \E expected \in Elems(expected_values) : actual = expected)
        ELSE IF is("prefix_in")
        THEN Returns(\E actual \in Elems(actual_values) :
                        \E prefix \in Elems(expected_values) : startswith(actual, prefix))
        ELSE IF is("eq")
        THEN Returns(\E actual \in Elems(actual_values) : actual = first)
        ELSE Returns(FALSE)

\* _match_rule from the lookup of the field on, for the mapping that holds
\* field, op and value
match_fields(field, op, expected, context) ==
    IF Falsy(field) \/ Falsy(op) THEN Returns(FALSE)
    ELSE LET actual_values == _to_list(DictGet(context, PyStr(Str(field)), PyNone))
             expected_values == _to_list(expected)
         IN  IF actual_values = <<>> THEN Returns(FALSE)
             ELSE IF expected_values = <<>> /\ op.t = "list"
             THEN Raises("TypeError")   \* op not in {"eq"}: a list is unhashable
             ELSE IF expected_values = <<>> /\ op # PyStr(<<"eq">>)
             THEN Returns(FALSE)
             ELSE match_op(op, actual_values, expected_values)

\* _match_rule(rule, context)
_match_rule(rule, context) ==
    IF rule.match.t = "absent"
    THEN match_fields(Get(rule.field), Get(rule.op), Get(rule.value), context)
    ELSE IF rule.match.t = "dict"
    THEN match_fields(Get(rule.match.field), Get(rule.match.op),
                      Get(rule.match.value), context)
    ELSE Returns(FALSE)

----------------------------------------------------------------------------
(* Inputs of the rule specifications *)

S_404 == <<"4", "0", "4">>
S_500 == <<"5", "0", "0">>
F_status == <<"status">>
F_message == <<"message">>
F_level == <<"level">>

\* the strings over a and b of at most MaxLen characters
GenStrs == SeqsUpTo({"a", "b"}, MaxLen)

\* an AlertContext that binds status and message (Absent: the key is missing)
Ctx(status, message) ==
    [k \in {f \in {F_status, F_message} :
               (IF f = F_status THEN status ELSE message).t # "absent"} |->
        IF k = F_status THEN status ELSE message]

ContextValues ==
    {PyStr(g) : g \in GenStrs} \cup
    { Absent, PyNone, PyStr(S_404), PyStr(S_500), PyInt(404), PyInt(0),
      PyList(<<>>), PyList(<<PyStr(S_404), PyStr(<<"a", "b">>)>>) }

Contexts == {Ctx(st, msg) : st \in ContextValues, msg \in {Absent, PyStr(<<"b", "a">>)}}

RuleFields ==
    { PyStr(F_status), PyStr(F_message), PyStr(F_level), Absent, PyStr(<<>>),
      PyList(<<PyStr(F_status)>>) }

RuleOps ==
    {PyStr(<<o>>) : o \in {"eq", "contains", "contains_any", "regex", "in", "prefix_in", "gt"}}
    \cup {Absent, PyStr(<<>>), PyList(<<PyStr(<<"eq">>)>>)}

RuleValues ==
    {PyStr(g) : g \in GenStrs} \cup
    { Absent, PyNone, PyStr(S_404), PyStr(<<"(">>), PyStr(<<"a", ".">>), PyStr(<<"4", ".", "4">>),
      PyInt(404), PyList(<<>>), PyList(<<PyStr(S_404), PyStr(S_500)>>),
      PyList(<<PyNone, PyStr(<<"b">>)>>), PyList(<<PyInt(404)>>), PyList(<<PyStr(<<>>)>>) }

\* rule mappings of every shape: the fields on the rule itself, the fields
\* under "match", a "match" that is no mapping, an item that is no mapping
RulePool ==
    {Rule(NoMatchKey, f, o, v) : f \in RuleFields, o \in RuleOps, v \in RuleValues}
    \cup {Rule(MatchDict(f, o, v), Absent, Absent, Absent) :
             f \in RuleFields, o \in RuleOps, v \in RuleValues}
    \cup {Rule(MatchDict(Absent, Absent, Absent), PyStr(F_status), PyStr(<<"eq">>), v) :
             v \in RuleValues}
    \cup {Rule(MatchScalar, PyStr(F_status), PyStr(<<"eq">>), v) : v \in RuleValues}

----------------------------------------------------------------------------
(* Rule-matching specification: _match_rule applied to one rule and one
   context *)

InitMatchRule ==
    /\ _routes = EmptyConfig
    /\ settings = DefaultSettings
    /\ call = NoCall
    /\ ret = Returns(FALSE)
    /\ telegram = <<>>
    /\ axiom = <<>>
    /\ stop_event = FALSE
    /\ auto_task = NoTask

Call_match_rule ==
    /\ call = NoCall
    /\ \E rule \in RulePool, context \in Contexts :
        /\ call' = [fn |-> "_match_rule", rule |-> rule, context |-> context]
        /\ ret' = _match_rule(rule, context)
        /\ UNCHANGED <<settings, _routes, telegram, axiom, stop_event, auto_task>>

NextMatchRule == Call_match_rule

SpecMatchRule == InitMatchRule /\ [][NextMatchRule]_vars

----------------------------------------------------------------------------
(* Claims about rule matching *)

\* the mapping of the called rule that holds field, op and value
CalledMatch ==
    IF call.rule.match.t = "absent"
    THEN MatchDict(call.rule.field, call.rule.op, call.rule.value)
    ELSE call.rule.match

\* the context key the called rule names
CalledKey == Str(Get(CalledMatch.field))

\* C3: for every rule and every operator, known or unknown, _match_rule
\* returns false when the rule's field is absent from the context, whatever
\* the rule's value is.
C3_AbsentFieldIsFalse ==
    (call.fn = "_match_rule" /\ CalledKey \notin DOMAIN call.context) =>
        ret = Returns(FALSE)

\* a regex rule whose pattern does not compile, on a field the context does
\* not hold, returned false
C3_Witness ==
    /\ call.fn = "_match_rule"
    /\ call.rule = Rule(NoMatchKey, PyStr(F_level), PyStr(<<"regex">>), PyStr(<<"(">>))
    /\ F_level \notin DOMAIN call.context
    /\ F_status \in DOMAIN call.context
    /\ ret = Returns(FALSE)

\* C4 as stated: a context field bound to a falsy value (such as the empty
\* string) gives no actual values, so every rule on that field is false.
C4_FalsyFieldIsFalse ==
    (/\ call.fn = "_match_rule"
     /\ CalledKey \in DOMAIN call.context
     /\ Falsy(call.context[CalledKey])) =>
        ret = Returns(FALSE)

\* C5 as stated: _match_rule returns a boolean and never raises, whatever
\* the rule mapping and the context.
C5_NeverRaises == call.fn = "_match_rule" => ret.exc = "none"

\* the str values bound to a context key: the value itself, or the elements
\* of a list value, None excluded
BoundValues(v) ==
    IF v.t = "str" THEN {v.s}
    ELSE IF v.t = "int" THEN {IntStr(v.n)}
    ELSE IF v.t = "list" THEN {Str(v.l[i]) : i \in {j \in 1..Len(v.l) : v.l[j].t # "none"}}
    ELSE {}

\* p is a substring of s: s is some prefix, then p, then some suffix
Infix(p, s) ==
    \E i \in 0..Len(s) : \E j \in i..Len(s) :
        SubSeq(s, 1, i) \o p \o SubSeq(s, j + 1, Len(s)) = s

\* C6: for a rule with op = contains and a literal value, _match_rule is
\* true iff the literal is a substring of at least one value bound to the
\* rule's field, and false when the field is absent.
C6_ContainsIffSubstring ==
    (/\ call.fn = "_match_rule"
     /\ CalledMatch.t = "dict"
     /\ ~Falsy(CalledMatch.field)
     /\ CalledMatch.op = PyStr(<<"contains">>)
     /\ CalledMatch.value.t \in {"str", "int"}) =>
        IF CalledKey \in DOMAIN call.context
        THEN ret = Returns(\E v \in BoundValues(call.context[CalledKey]) :
                              Infix(Str(CalledMatch.value), v))
        ELSE ret = Returns(FALSE)

\* contains "a" on status "ba": true although "a" is neither equal to the
\* value nor a prefix of it
C6_Witness ==
    /\ call.fn = "_match_rule"
    /\ CalledMatch.op = PyStr(<<"contains">>)
    /\ CalledMatch.field = PyStr(F_status)
    /\ CalledMatch.value = PyStr(<<"a">>)
    /\ F_status \in DOMAIN call.context
    /\ call.context[F_status] = PyStr(<<"b", "a">>)
    /\ ret = Returns(TRUE)

----------------------------------------------------------------------------
(* Configuration sections *)

\* _config_drop_rules(): the drop list, [] unless the section is a list
_config_drop_rules ==
    IF ~NoRoutes /\ _routes.drop.t = "list" THEN _routes.drop.l ELSE <<>>

\* _config_profiles(): name -> profile, {} unless the section is a mapping
_config_profiles ==
    IF ~NoRoutes /\ _routes.profiles.t = "dict" THEN _routes.profiles.d ELSE EmptyDict

\* _config_services(): name -> service entry, {} unless the section is a mapping
_config_services ==
    IF ~NoRoutes /\ _routes.services.t = "dict" THEN _routes.services.d ELSE EmptyDict

\* _config_defaults().get("runbook", [])
defaults_runbook ==
    IF ~NoRoutes /\ _routes.defaults.t = "dict" /\ _routes.defaults.runbook.t # "absent"
    THEN _routes.defaults.runbook
    ELSE PyList(<<>>)

\* _config_tags()
_config_tags ==
    LET tags == IF ~NoRoutes /\ _routes.tags.t = "dict" THEN _routes.tags
                ELSE [t |-> "dict", user_impact |-> Absent, service_errors |-> Absent]
    IN  [user_impact |-> IF tags.user_impact.t = "absent" THEN <<"#user-impact">>
                         ELSE Str(tags.user_impact),
         service_errors |-> IF tags.service_errors.t = "absent" THEN <<"#service-errors">>
                            ELSE Str(tags.service_errors)]

\* a profile {p1?, runbook?} and a service entry {profiles?, runbook?}
Profile(p1, runbook) == [t |-> "dict", p1 |-> p1, runbook |-> runbook]
Service(profiles, runbook) == [t |-> "dict", profiles |-> profiles, runbook |-> runbook]

\* profiles_cfg.get(name, {}) and services_cfg.get(name, {})
ProfileOf(name) ==
    IF name \in DOMAIN _config_profiles THEN _config_profiles[name]
    ELSE Profile(Absent, Absent)

ServiceOf(name) ==
    IF name \in DOMAIN _config_services THEN _config_services[name]
    ELSE Service(Absent, Absent)

----------------------------------------------------------------------------
(* Classification *)

\* any(isinstance(rule, dict) and _match_rule(rule, context) for rule in rules),
\* also the for loop of _should_drop: rules are tried in order, the first
\* match ends the scan with True, an exception of _match_rule ends it too
RECURSIVE any_rule_matches(_, _)
any_rule_matches(rules, context) ==
    IF rules = <<>> THEN Returns(FALSE)
    ELSE IF rules[1].t # "dict" THEN any_rule_matches(Tail(rules), context)
    ELSE LET r == _match_rule(rules[1], context)
         IN  IF r.exc # "none" THEN r
             ELSE IF r.val THEN Returns(TRUE)
             ELSE any_rule_matches(Tail(rules), context)

\* _should_drop that finds no rule to match
never_drop(context) == Returns(FALSE)

\* _should_drop(context)
_should_drop(context) == any_rule_matches(_config_drop_rules, context)

\* [str(p) for p in profiles if p]
RECURSIVE TruthyNames(_)
TruthyNames(l) ==
    IF l = <<>> THEN <<>>
    ELSE IF Falsy(l[1]) THEN TruthyNames(Tail(l))
    ELSE <<Str(l[1])>> \o TruthyNames(Tail(l))

\* the first loop of _get_service_profiles over the sorted services
RECURSIVE collect_profiles(_)
collect_profiles(ordered) ==
    IF ordered = <<>> THEN <<>>
    ELSE LET cfg == ServiceOf(ordered[1])
         IN  (IF cfg.t = "dict" /\ cfg.profiles.t = "list"
              THEN TruthyNames(cfg.profiles.l) ELSE <<>>)
             \o collect_profiles(Tail(ordered))

\* the second loop of _get_service_profiles: keep each name's first occurrence
RECURSIVE unique(_, _)
unique(names, seen) ==
    IF names = <<>> THEN <<>>
    ELSE IF names[1] \in seen THEN unique(Tail(names), seen)
    ELSE <<names[1]>> \o unique(Tail(names), seen \cup {names[1]})

\* a < b in the reverse of the str order
StrGreater(a, b) == StrLess(b, a)

\* sorted(S, reverse=True)
RECURSIVE sorted_reverse(_)
sorted_reverse(S) ==
    IF S = {} THEN <<>>
    ELSE LET m == CHOOSE x \in S : \A y \in S \ {x} : StrGreater(x, y)
         IN  <<m>> \o sorted_reverse(S \ {m})

\* _get_service_profiles that walks the services in descending order
get_service_profiles_descending(services) ==
    unique(collect_profiles(sorted_reverse(services)), {})

\* _get_service_profiles(services)
_get_service_profiles(services) == unique(collect_profiles(sorted(services)), {})

\* the for loop of _is_p1 from a profile name on
RECURSIVE _is_p1(_, _)
_is_p1(profile_names, context) ==
    IF profile_names = <<>> THEN Returns(FALSE)
    ELSE LET profile == ProfileOf(profile_names[1])
             r == IF profile.t = "dict" /\ profile.p1.t = "list"
                  THEN any_rule_matches(profile.p1.l, context)
                  ELSE Returns(FALSE)
         IN  IF r.exc # "none" THEN r
             ELSE IF r.val THEN Returns(TRUE)
             ELSE _is_p1(Tail(profile_names), context)

\* axiom_webhook, the severity tag: profile_names, is_p1, tags, tag
severity_tag(services, context) ==
    LET is_p1 == _is_p1(_get_service_profiles(services), context)
    IN  IF is_p1.exc # "none" THEN is_p1
        ELSE Returns(IF is_p1.val THEN _config_tags.user_impact
                     ELSE _config_tags.service_errors)

\* the first loop of _resolve_runbook: the services in sorted order
RECURSIVE service_runbook(_)
service_runbook(ordered) ==
    IF ordered = <<>> THEN Absent
    ELSE LET cfg == ServiceOf(ordered[1])
         IN  IF cfg.t = "dict" /\ cfg.runbook.t = "list" THEN cfg.runbook
             ELSE service_runbook(Tail(ordered))

\* the second loop of _resolve_runbook: the profiles in the given order
RECURSIVE profile_runbook(_)
profile_runbook(profile_names) ==
    IF profile_names = <<>> THEN Absent
    ELSE LET profile == ProfileOf(profile_names[1])
         IN  IF profile.t = "dict" /\ profile.runbook.t = "list" THEN profile.runbook
             ELSE profile_runbook(Tail(profile_names))

\* the end of _resolve_runbook: the default runbook if it is a list, else []
default_steps == IF defaults_runbook.t = "list" THEN defaults_runbook.l ELSE <<>>

\* _resolve_runbook that asks the profiles before the services
resolve_runbook_profiles_first(services, profile_names) ==
    IF profile_runbook(profile_names).t = "list" THEN profile_runbook(profile_names).l
    ELSE IF service_runbook(sorted(services)).t = "list"
    THEN service_runbook(sorted(services)).l
    ELSE default_steps

\* _resolve_runbook(services, profile_names)
_resolve_runbook(services, profile_names) ==
    IF service_runbook(sorted(services)).t = "list"
    THEN service_runbook(sorted(services)).l
    ELSE IF profile_runbook(profile_names).t = "list"
    THEN profile_runbook(profile_names).l
    ELSE default_steps

----------------------------------------------------------------------------
(* Inputs of the classification specifications *)

S_A == <<"A">>
S_B == <<"B">>
S_C == <<"C">>
S_D == <<"D">>
S_ghost == <<"g", "h", "o", "s", "t">>
P_sev_a == <<"sev-a">>
P_sev_b == <<"sev-b">>
P_sev_c == <<"sev-c">>
P_ghost == <<"sev-ghost">>

\* a document whose sections are present and empty
BaseConfig ==
    [EmptyConfig EXCEPT
        !.keys = {"groups", "topics", "drop", "profiles", "services", "defaults"},
        !.groups = Groups, !.topics = Topics,
        !.drop = PyList(<<>>),
        !.profiles = [t |-> "dict", d |-> EmptyDict],
        !.services = [t |-> "dict", d |-> EmptyDict],
        !.defaults = [t |-> "dict", runbook |-> Absent]]

R_status_404 == Rule(NoMatchKey, PyStr(F_status), PyStr(<<"eq">>), PyStr(S_404))
R_status_bad_regex == Rule(NoMatchKey, PyStr(F_status), PyStr(<<"regex">>), PyStr(<<"(">>))
R_message_a == Rule(MatchDict(PyStr(F_message), PyStr(<<"contains">>), PyStr(<<"a">>)),
                    Absent, Absent, Absent)
R_status_in == Rule(NoMatchKey, PyStr(F_status), PyStr(<<"in">>),
                    PyList(<<PyStr(S_404), PyStr(S_500)>>))
R_status_5xx == Rule(NoMatchKey, PyStr(F_status), PyStr(<<"prefix_in">>),
                     PyList(<<PyStr(<<"5">>)>>))
R_level_eq == Rule(NoMatchKey, PyStr(F_level), PyStr(<<"eq">>), PyStr(<<"a">>))

DropPool ==
    {R_status_404, R_status_bad_regex, R_message_a, R_status_in, R_level_eq, NotARule}

DropConfigs ==
    {[BaseConfig EXCEPT !.drop = d] :
        d \in {Absent, PyStr(<<"a">>)} \cup {PyList(l) : l \in SeqsUpTo(DropPool, MaxRules)}}

\* contexts as axiom_webhook builds them: status and message bound to a str
HandlerContexts ==
    {Ctx(PyStr(st), PyStr(msg)) :
        st \in {<<>>, S_404, S_500}, msg \in {<<>>, <<"b", "a">>}}

P1Pool == {R_status_5xx, R_message_a, R_status_bad_regex, R_status_404}

ProfileNameLists == SeqsUpTo({P_sev_a, P_sev_b, P_ghost}, MaxProfiles)

\* profiles sev-a and sev-b with their p1 lists, sev-c that is no mapping;
\* service A uses sev-a, service B uses sev-b and sev-a
P1Configs ==
    {[BaseConfig EXCEPT
        !.keys = @ \cup (IF tags.t = "dict" THEN {"tags"} ELSE {}),
        !.profiles = [t |-> "dict", d |->
            [n \in {P_sev_a, P_sev_b, P_sev_c} |->
                IF n = P_sev_a THEN Profile(PyList(la), Absent)
                ELSE IF n = P_sev_b THEN Profile(pb, Absent)
                ELSE [t |-> "str", p1 |-> Absent, runbook |-> Absent]]],
        !.services = [t |-> "dict", d |->
            [n \in {S_A, S_B} |->
                IF n = S_A THEN Service(PyList(<<PyStr(P_sev_a)>>), Absent)
                ELSE Service(PyList(<<PyStr(P_sev_b), PyStr(P_sev_a)>>), Absent)]],
        !.tags = tags] :
        la \in SeqsUpTo(P1Pool, MaxRules),
        pb \in {Absent, PyStr(<<"a">>), PyList(<<R_status_404>>)},
        tags \in {[t |-> "absent", user_impact |-> Absent, service_errors |-> Absent],
                  [t |-> "dict", user_impact |-> PyStr(<<"#p1">>), service_errors |-> Absent]}}

\* what a service entry may hold under "profiles"
ProfileLists ==
    {Absent, PyStr(<<"a">>)} \cup
    {PyList(l) : l \in SeqsUpTo({PyStr(P_sev_a), PyStr(P_sev_b), PyStr(P_sev_c)}, MaxProfiles)}

\* services A and B with any profile lists, C with [sev-c], D that is no
\* mapping; every profile a service names is declared
ProfileConfigs ==
    {[BaseConfig EXCEPT
        !.profiles = [t |-> "dict", d |->
            [n \in {P_sev_a, P_sev_b, P_sev_c} |-> Profile(Absent, Absent)]],
        !.services = [t |-> "dict", d |->
            [n \in {S_A, S_B, S_C, S_D} |->
                IF n = S_A THEN Service(pa, Absent)
                ELSE IF n = S_B THEN Service(pb, Absent)
                ELSE IF n = S_C THEN Service(PyList(<<PyStr(P_sev_c)>>), Absent)
                ELSE [t |-> "str", profiles |-> Absent, runbook |-> Absent]]]] :
        pa \in ProfileLists, pb \in ProfileLists}

\* runbook steps: "restart {service} on {host}", "check {monitor}" and
\* "call on-duty"
Step_service ==
    <<"r", "e", "s", "t", "a", "r", "t", " ", "{", "s", "e", "r", "v",
      "i", "c", "e", "}", " ", "o", "n", " ", "{", "h", "o", "s", "t",
      "}">>

Step_profile ==
    <<"c", "h", "e", "c", "k", " ", "{", "m", "o", "n", "i", "t", "o",
      "r", "}">>

Step_default ==
    <<"c", "a", "l", "l", " ", "o", "n", "-", "d", "u", "t", "y">>

RunbookConfigs ==
    {[BaseConfig EXCEPT
        !.profiles = [t |-> "dict", d |->
            [n \in {P_sev_a, P_sev_b} |->
                Profile(Absent, IF n = P_sev_a THEN ra ELSE rb)]],
        !.services = [t |-> "dict", d |->
            [n \in {S_A, S_B} |->
                IF n = S_A THEN Service(PyList(<<PyStr(P_sev_a)>>), sa)
                ELSE Service(PyList(<<PyStr(P_sev_b)>>), sb)]],
        !.defaults = df] :
        sa \in {Absent, PyList(<<>>), PyList(<<Step_service, <<"A">>>>)},
        sb \in {Absent, PyStr(<<"a">>), PyList(<<Step_service, <<"B">>>>)},
        ra \in {Absent, PyList(<<>>), PyList(<<Step_profile, <<"sev-a">>>>)},
        rb \in {Absent, PyList(<<Step_profile, <<"sev-b">>>>)},
        df \in {[t |-> "absent", runbook |-> Absent],
                [t |-> "dict", runbook |-> Absent],
                [t |-> "dict", runbook |-> PyStr(<<"a">>)],
                [t |-> "dict", runbook |-> PyList(<<Step_default>>)]}}

----------------------------------------------------------------------------
(* Drop specification: _should_drop on the drop list of a loaded
   configuration *)

InitDrop ==
    /\ _routes \in DropConfigs
    /\ settings = DefaultSettings
    /\ call = NoCall
    /\ ret = Returns(FALSE)
    /\ telegram = <<>>
    /\ axiom = <<>>
    /\ stop_event = FALSE
    /\ auto_task = NoTask

Call_should_drop ==
    /\ call = NoCall
    /\ \E context \in Contexts :
        /\ call' = [fn |-> "_should_drop", context |-> context]
        /\ ret' = _should_drop(context)
        /\ UNCHANGED <<settings, _routes, telegram, axiom, stop_event, auto_task>>

NextDrop == Call_should_drop

SpecDrop == InitDrop /\ [][NextDrop]_vars

----------------------------------------------------------------------------
(* Severity specification: _is_p1 and the tag chosen from it *)

InitP1 ==
    /\ _routes \in P1Configs
    /\ settings = DefaultSettings
    /\ call = NoCall
    /\ ret = Returns(FALSE)
    /\ telegram = <<>>
    /\ axiom = <<>>
    /\ stop_event = FALSE
    /\ auto_task = NoTask

Call_is_p1 ==
    /\ call = NoCall
    /\ \E profile_names \in ProfileNameLists, context \in HandlerContexts :
        /\ call' = [fn |-> "_is_p1", profile_names |-> profile_names, context |-> context]
        /\ ret' = _is_p1(profile_names, context)
        /\ UNCHANGED <<settings, _routes, telegram, axiom, stop_event, auto_task>>

Call_severity_tag ==
    /\ call = NoCall
    /\ \E services \in SUBSET {S_A, S_B}, context \in HandlerContexts :
        /\ call' = [fn |-> "severity_tag", services |-> services, context |-> context]
        /\ ret' = severity_tag(services, context)
        /\ UNCHANGED <<settings, _routes, telegram, axiom, stop_event, auto_task>>

NextP1 == Call_is_p1 \/ Call_severity_tag

SpecP1 == InitP1 /\ [][NextP1]_vars

----------------------------------------------------------------------------
(* Profile specification: _get_service_profiles *)

InitProfiles ==
    /\ _routes \in ProfileConfigs
    /\ settings = DefaultSettings
    /\ call = NoCall
    /\ ret = Returns(FALSE)
    /\ telegram = <<>>
    /\ axiom = <<>>
    /\ stop_event = FALSE
    /\ auto_task = NoTask

Call_get_service_profiles ==
    /\ call = NoCall
    /\ \E services \in SUBSET {S_A, S_B, S_C, S_D, S_ghost} :
        /\ call' = [fn |-> "_get_service_profiles", services |-> services]
        /\ ret' = Returns(_get_service_profiles(services))
        /\ UNCHANGED <<settings, _routes, telegram, axiom, stop_event, auto_task>>

NextProfiles == Call_get_service_profiles

SpecProfiles == InitProfiles /\ [][NextProfiles]_vars

----------------------------------------------------------------------------
(* Runbook specification: _resolve_runbook *)

InitRunbook ==
    /\ _routes \in RunbookConfigs
    /\ settings = DefaultSettings
    /\ call = NoCall
    /\ ret = Returns(FALSE)
    /\ telegram = <<>>
    /\ axiom = <<>>
    /\ stop_event = FALSE
    /\ auto_task = NoTask

Call_resolve_runbook ==
    /\ call = NoCall
    /\ \E services \in SUBSET {S_A, S_B, S_ghost}, profile_names \in ProfileNameLists :
        /\ call' = [fn |-> "_resolve_runbook", services |-> services,
                    profile_names |-> profile_names]
        /\ ret' = Returns(_resolve_runbook(services, profile_names))
        /\ UNCHANGED <<settings, _routes, telegram, axiom, stop_event, auto_task>>

NextRunbook == Call_resolve_runbook

SpecRunbook == InitRunbook /\ [][NextRunbook]_vars

----------------------------------------------------------------------------
(* Claims about classification *)

\* rule i of the rule list is a mapping that matches the context
Matches(rules, i, context) ==
    /\ rules[i].t = "dict"
    /\ _match_rule(rules[i], context) = Returns(TRUE)

\* C7 as stated: _should_drop(context) is true iff at least one configured
\* drop rule matches the context, whatever the order of the drop list; the
\* rule {field: status, op: eq, value: "404"} drops status "404" and does
\* not drop status "500".
C7_DropIffSomeRuleMatches ==
    call.fn = "_should_drop" =>
        /\ ret = Returns(\E i \in 1..Len(_config_drop_rules) :
                            Matches(_config_drop_rules, i, call.context))
        /\ (_config_drop_rules = <<R_status_404>> /\ F_status \in DOMAIN call.context) =>
              /\ call.context[F_status] = PyStr(S_404) => ret = Returns(TRUE)
              /\ call.context[F_status] = PyStr(S_500) => ret = Returns(FALSE)

\* the declared profile list of a service of the configuration
Declared(service) ==
    IF /\ service \in DOMAIN _config_services
       /\ _config_services[service].t = "dict"
       /\ _config_services[service].profiles.t = "list"
    THEN [i \in 1..Len(_config_services[service].profiles.l) |->
             _config_services[service].profiles.l[i].s]
    ELSE <<>>

\* the places <<service, index>> where the called services declare a name
Occurrences(name) ==
    {<<sv, k>> : sv \in call.services, k \in 1..MaxProfiles + 1} \cap
    {p \in (call.services \X (1..MaxProfiles + 1)) :
        p[2] <= Len(Declared(p[1])) /\ Declared(p[1])[p[2]] = name}

\* place p comes before place q: an earlier service in str order, or the
\* same service and an earlier index
Before(p, q) == StrLess(p[1], q[1]) \/ (p[1] = q[1] /\ p[2] < q[2])

FirstOccurrence(name) ==
    CHOOSE p \in Occurrences(name) : \A q \in Occurrences(name) \ {p} : Before(p, q)

\* C8: _get_service_profiles returns the profile names the services declare,
\* taken in sorted service order, without duplicates and in the order of
\* their first occurrence; A: [sev-a], B: [sev-b, sev-a] give [sev-a, sev-b].
C8_ProfilesFirstOccurrence ==
    call.fn = "_get_service_profiles" =>
        LET res == ret.val
        IN  /\ \A i, j \in 1..Len(res) : i # j => res[i] # res[j]
            /\ Elems(res) = UNION {Elems(Declared(sv)) : sv \in call.services}
            /\ \A i, j \in 1..Len(res) :
                  i < j => Before(FirstOccurrence(res[i]), FirstOccurrence(res[j]))
            /\ (/\ call.services = {S_A, S_B}
                /\ Declared(S_A) = <<P_sev_a>>
                /\ Declared(S_B) = <<P_sev_b, P_sev_a>>) => res = <<P_sev_a, P_sev_b>>

\* services A: [sev-a] and B: [sev-b, sev-a] resolved to [sev-a, sev-b]
C8_Witness ==
    /\ call.fn = "_get_service_profiles"
    /\ call.services = {S_A, S_B}
    /\ Declared(S_A) = <<P_sev_a>>
    /\ Declared(S_B) = <<P_sev_b, P_sev_a>>
    /\ ret = Returns(<<P_sev_a, P_sev_b>>)

\* some rule of the p1 list of some of the given profiles matches the context
SomeP1RuleMatches(profile_names, context) ==
    \E n \in 1..Len(profile_names) :
        LET profile == ProfileOf(profile_names[n])
        IN  /\ profile.t = "dict"
            /\ profile.p1.t = "list"
            /\ \E i \in 1..Len(profile.p1.l) : Matches(profile.p1.l, i, context)

\* C9 as stated: _is_p1 is true iff some rule in the p1 list of some given
\* profile matches the context, false with no profile or no matching rule,
\* and the outbound tag is the user-impact tag exactly when _is_p1 is true
\* and the service-errors tag otherwise.
C9_P1IffSomeRuleMatches ==
    /\ call.fn = "_is_p1" =>
          ret = Returns(SomeP1RuleMatches(call.profile_names, call.context))
    /\ call.fn = "severity_tag" =>
          ret = Returns(IF SomeP1RuleMatches(_get_service_profiles(call.services),
                                             call.context)
                        THEN _config_tags.user_impact
                        ELSE _config_tags.service_errors)

\* the called services that declare a runbook, and the given profiles that do
DeclaringServices ==
    {sv \in call.services :
        /\ sv \in DOMAIN _config_services
        /\ _config_services[sv].t = "dict"
        /\ _config_services[sv].runbook.t = "list"}

DeclaringProfiles ==
    {n \in 1..Len(call.profile_names) :
        /\ call.profile_names[n] \in DOMAIN _config_profiles
        /\ _config_profiles[call.profile_names[n]].t = "dict"
        /\ _config_profiles[call.profile_names[n]].runbook.t = "list"}

\* C10: _resolve_runbook returns the runbook of the first service in sorted
\* order that declares one; otherwise that of the first given profile that
\* declares one; otherwise the global default runbook; otherwise the empty
\* list.  No profile or default runbook is returned when a service of the
\* set declares a runbook.
C10_RunbookThreeTiers ==
    call.fn = "_resolve_runbook" =>
        IF DeclaringServices # {}
        THEN LET sv == CHOOSE x \in DeclaringServices :
                           \A y \in DeclaringServices \ {x} : StrLess(x, y)
             IN  ret = Returns(_config_services[sv].runbook.l)
        ELSE IF DeclaringProfiles # {}
        THEN LET n == CHOOSE x \in DeclaringProfiles : \A y \in DeclaringProfiles : x <= y
             IN  ret = Returns(_config_profiles[call.profile_names[n]].runbook.l)
        ELSE IF _routes.defaults.t = "dict" /\ _routes.defaults.runbook.t = "list"
        THEN ret = Returns(_routes.defaults.runbook.l)
        ELSE ret = Returns(<<>>)

\* service A declares no runbook, service B does, a given profile and the
\* defaults declare one too: the runbook of B is returned
C10_Witness ==
    /\ call.fn = "_resolve_runbook"
    /\ call.services = {S_A, S_B}
    /\ DeclaringServices = {S_B}
    /\ DeclaringProfiles # {}
    /\ _routes.defaults.runbook.t = "list"
    /\ ret = Returns(<<Step_service, <<"B">>>>)

----------------------------------------------------------------------------
(* Fall-through between the tiers of _resolve_runbook *)

\* the steps each tier can provide to the call: those of the called services,
\* those of the given profiles, those of the defaults
ServiceTierSteps ==
    {_config_services[sv].runbook.l : sv \in DeclaringServices} \ {<<>>}

ProfileTierSteps ==
    {_config_profiles[call.profile_names[n]].runbook.l : n \in DeclaringProfiles}
        \ {<<>>}

DefaultTierSteps == {default_steps} \ {<<>>}

\* C11 as stated: a tier that yields no step (a service whose declared
\* runbook is the empty list included) falls through to the next tier, so
\* _resolve_runbook returns the empty list only if no service, no given
\* profile and no default provides a step.
C11_EmptyOnlyIfNoTierHasSteps ==
    (call.fn = "_resolve_runbook" /\ ret = Returns(<<>>)) =>
        /\ ServiceTierSteps = {}
        /\ ProfileTierSteps = {}
        /\ DefaultTierSteps = {}

----------------------------------------------------------------------------
(* Runbook rendering: str.format as _render_runbook uses it, and the
   placeholder validation of the configuration.  Templates hold no "." and
   no "[" (attribute and index access), and a format specification holds
   only a type code and nested fields (no fill, alignment, width or
   precision). *)

MaxSteps == 2

\* the keyword names of the format call and the names validation allows
K_host ==
    <<"h", "o", "s", "t">>

K_service ==
    <<"s", "e", "r", "v", "i", "c", "e">>

K_monitor ==
    <<"m", "o", "n", "i", "t", "o", "r">>

K_container ==
    <<"c", "o", "n", "t", "a", "i", "n", "e", "r">>

ALLOWED_PLACEHOLDERS == {K_host, K_service, K_container, K_monitor}

\* the phrases that stand for an empty host, service, monitor; each is a
\* fixed non-empty text, kept whole as one element
HostPhrase == <<"nuzhnyi khost">>
ServicePhrase == <<"nuzhnyi servis">>
MonitorPhrase == <<"nuzhnyi monitor">>

\* the marker of a replacement field that has no conversion
NoConversion == ""

\* one item of the markup iterator: the literal text, and the replacement
\* field that follows it if there is one; next is where the scan resumes
MarkupError ==
    [err |-> TRUE, literal |-> <<>>, field |-> FALSE, name |-> <<>>,
     conversion |-> NoConversion, spec |-> <<>>, next |-> 0]

Literal(text, next) ==
    [err |-> FALSE, literal |-> text, field |-> FALSE, name |-> <<>>,
     conversion |-> NoConversion, spec |-> <<>>, next |-> next]

Field(name, conversion, spec, next) ==
    [err |-> FALSE, literal |-> <<>>, field |-> TRUE, name |-> name,
     conversion |-> conversion, spec |-> spec, next |-> next]

\* the first position at or after i that holds a brace, Len(s) + 1 if none
RECURSIVE literal_end(_, _)
literal_end(s, i) ==
    IF i > Len(s) \/ s[i] \in {"{", "}"} THEN i ELSE literal_end(s, i + 1)

\* the first position at or after i that ends a field name
RECURSIVE field_name_end(_, _)
field_name_end(s, i) ==
    IF i > Len(s) \/ s[i] \in {"{", "}", ":", "!"} THEN i
    ELSE field_name_end(s, i + 1)

\* the position of the "}" that closes the format specification starting at
\* i, counting nested braces; 0 if there is none
RECURSIVE format_spec_end(_, _, _)
format_spec_end(s, i, count) ==
    IF i > Len(s) THEN 0
    ELSE IF s[i] = "{" THEN format_spec_end(s, i + 1, count + 1)
    ELSE IF s[i] = "}"
    THEN IF count = 1 THEN i ELSE format_spec_end(s, i + 1, count - 1)
    ELSE format_spec_end(s, i + 1, count)

\* the format specification of a field, from position i to its closing brace
format_spec_from(s, name, conversion, i) ==
    LET c == format_spec_end(s, i, 1)
    IN  IF c = 0 THEN MarkupError
        ELSE Field(name, conversion, SubSeq(s, i, c - 1), c + 1)

\* parse_field: the replacement field whose first character is at i
parse_field(s, i) ==
    LET e == field_name_end(s, i)
        name == SubSeq(s, i, e - 1)
    IN  IF e > Len(s) THEN MarkupError
        ELSE IF s[e] = "{" THEN MarkupError
        ELSE IF s[e] = "}" THEN Field(name, NoConversion, <<>>, e + 1)
        ELSE IF s[e] = ":" THEN format_spec_from(s, name, NoConversion, e + 1)
        ELSE IF e + 1 > Len(s) THEN MarkupError
        ELSE IF e + 2 > Len(s) THEN MarkupError
        ELSE IF s[e + 2] = "}" THEN Field(name, s[e + 1], <<>>, e + 3)
        ELSE IF s[e + 2] # ":" THEN MarkupError
        ELSE format_spec_from(s, name, s[e + 1], e + 3)

\* MarkupIterator_next at position i <= Len(s): literal text up to a brace,
\* a doubled brace taken as one literal brace, a lone brace an error
MarkupIterator_next(s, i) ==
    LET b == literal_end(s, i)
    IN  IF b > Len(s) THEN Literal(SubSeq(s, i, Len(s)), Len(s) + 1)
        ELSE IF b = Len(s) THEN MarkupError
        ELSE IF s[b + 1] = s[b] THEN Literal(SubSeq(s, i, b), b + 2)
        ELSE IF s[b] = "}" THEN MarkupError
        ELSE LET f == parse_field(s, b + 1)
             IN  IF f.err THEN MarkupError
                 ELSE [f EXCEPT !.literal = SubSeq(s, i, b - 1)]

\* formatter_parser: the items of s from position i, up to the first error
RECURSIVE formatter_parser(_, _)
formatter_parser(s, i) ==
    IF i > Len(s) THEN [err |-> FALSE, items |-> <<>>]
    ELSE LET m == MarkupIterator_next(s, i)
         IN  IF m.err THEN [err |-> TRUE, items |-> <<>>]
             ELSE LET rest == formatter_parser(s, m.next)
                  IN  [err |-> rest.err, items |-> <<m>> \o rest.items]

\* a field name that is a decimal number
IsDigits(name) ==
    /\ name # <<>>
    /\ \A i \in 1..Len(name) :
        name[i] \in {"0", "1", "2", "3", "4", "5", "6", "7", "8", "9"}

\* do_conversion on a str value
do_conversion(value, conversion) ==
    IF conversion \in {NoConversion, "s"} THEN Returns(value)
    ELSE IF conversion \in {"r", "a"} THEN Returns(<<"'">> \o value \o <<"'">>)
    ELSE Raises("ValueError")

\* str.__format__ with a format specification
format_str(value, spec) ==
    IF spec \in {<<>>, <<"s">>} THEN Returns(value) ELSE Raises("ValueError")

RECURSIVE build_string(_, _, _)
RECURSIVE render_items(_, _, _, _, _)
RECURSIVE output_markup(_, _, _)

\* output_markup: look the field up, convert it, expand its format
\* specification, format it
output_markup(m, kwargs, recursion_depth) ==
    IF m.name = <<>> \/ IsDigits(m.name) THEN Raises("IndexError")
    ELSE IF m.name \notin DOMAIN kwargs THEN Raises("KeyError")
    ELSE LET converted == do_conversion(kwargs[m.name], m.conversion)
         IN  IF converted.exc # "none" THEN converted
             ELSE LET spec == IF "{" \in Elems(m.spec)
                              THEN build_string(m.spec, kwargs, recursion_depth - 1)
                              ELSE Returns(m.spec)
                  IN  IF spec.exc # "none" THEN spec
                      ELSE format_str(converted.val, spec.val)

\* the loop of build_string over the items parsed so far; the error of the
\* parser is met after the items that precede it
render_items(parsed, k, kwargs, recursion_depth, out) ==
    IF k > Len(parsed.items)
    THEN IF parsed.err THEN Raises("ValueError") ELSE Returns(out)
    ELSE LET m == parsed.items[k]
             r == IF m.field THEN output_markup(m, kwargs, recursion_depth)
                  ELSE Returns(<<>>)
         IN  IF r.exc # "none" THEN r
             ELSE render_items(parsed, k + 1, kwargs, recursion_depth,
                               out \o m.literal \o r.val)

build_string(s, kwargs, recursion_depth) ==
    IF recursion_depth <= 0 THEN Raises("ValueError")
    ELSE render_items(formatter_parser(s, 1), 1, kwargs, recursion_depth, <<>>)

\* step.format(host=..., service=..., monitor=...)
format(step, host_value, service_value, monitor_value) ==
    build_string(step,
                 [k \in {K_host, K_service, K_monitor} |->
                     IF k = K_host THEN host_value
                     ELSE IF k = K_service THEN service_value
                     ELSE monitor_value],
                 2)

\* value or phrase
Or(value, phrase) == IF value = <<>> THEN phrase ELSE value

\* the loop of _render_runbook: a step whose formatting raises KeyError is
\* kept as it is, any other exception leaves the function
RECURSIVE render_steps(_, _, _, _, _)
render_steps(steps, host_value, service_value, monitor_value, rendered) ==
    IF steps = <<>> THEN Returns(rendered)
    ELSE LET r == format(steps[1], host_value, service_value, monitor_value)
         IN  IF r.exc = "none"
             THEN render_steps(Tail(steps), host_value, service_value,
                               monitor_value, Append(rendered, r.val))
             ELSE IF r.exc = "KeyError"
             THEN render_steps(Tail(steps), host_value, service_value,
                               monitor_value, Append(rendered, steps[1]))
             ELSE r

\* _render_runbook that substitutes the values as they are
render_runbook_raw_values(steps, host, service, monitor) ==
    render_steps(steps, host, service, monitor, <<>>)

\* _render_runbook(steps, host, service, monitor)
_render_runbook(steps, host, service, monitor) ==
    render_steps(steps, Or(host, HostPhrase), Or(service, ServicePhrase),
                 Or(monitor, MonitorPhrase), <<>>)

\* the errors _validate_placeholders reports for one runbook line
placeholder_errors(line) ==
    LET parsed == formatter_parser(line, 1)
        unknown == {parsed.items[k].name : k \in
                       {j \in 1..Len(parsed.items) :
                           /\ parsed.items[j].field
                           /\ parsed.items[j].name \notin ALLOWED_PLACEHOLDERS}}
    IN  {[kind |-> "unknown placeholder", name |-> n] : n \in unknown}
            \cup (IF parsed.err
                  THEN {[kind |-> "invalid syntax", name |-> <<>>]}
                  ELSE {})

\* _validate_placeholders over the runbook lines of a configuration
_validate_placeholders(lines) ==
    UNION {placeholder_errors(lines[i]) : i \in 1..Len(lines)}

\* runbook steps given to the renderer
Step_container ==
    <<"s", "e", "e", " ", "{", "c", "o", "n", "t", "a", "i", "n", "e",
      "r", "}">>

Step_bad_conversion ==
    <<"{", "h", "o", "s", "t", "!", "z", "}">>

Step_bad_type_code ==
    <<"{", "h", "o", "s", "t", ":", "d", "}">>

Step_str_conversion ==
    <<"o", "n", " ", "{", "h", "o", "s", "t", "!", "s", "}">>

Step_doubled_braces ==
    <<"{", "{", "h", "o", "s", "t", "}", "}">>

Step_lone_brace ==
    <<"{", "h", "o", "s", "t", "}", "}">>

Step_positional ==
    <<"{", "0", "}">>

Step_nested_container ==
    <<"{", "h", "o", "s", "t", ":", "{", "c", "o", "n", "t", "a", "i",
      "n", "e", "r", "}", "}">>

Step_container_first ==
    <<"{", "c", "o", "n", "t", "a", "i", "n", "e", "r", "}", " ", "{",
      "h", "o", "s", "t", "!", "z", "}">>

Step_pod ==
    <<"{", "p", "o", "d", "}">>

Step_nested_twice ==
    <<"{", "h", "o", "s", "t", ":", "{", "s", "e", "r", "v", "i", "c",
      "e", ":", "{", "m", "o", "n", "i", "t", "o", "r", "}", "}", "}">>

StepPool ==
    {Step_service, Step_profile, Step_default, Step_container,
     Step_bad_conversion, Step_bad_type_code, Step_str_conversion,
     Step_doubled_braces, Step_lone_brace, Step_positional,
     Step_nested_container, Step_container_first, Step_pod,
     Step_nested_twice}

V_web ==
    <<"w", "e", "b">>

V_h1 ==
    <<"h", "1">>

V_cpu ==
    <<"c", "p", "u">>

InitRender ==
    /\ _routes = BaseConfig
    /\ settings = DefaultSettings
    /\ call = NoCall
    /\ ret = Returns(FALSE)
    /\ telegram = <<>>
    /\ axiom = <<>>
    /\ stop_event = FALSE
    /\ auto_task = NoTask

Call_render_runbook ==
    /\ call = NoCall
    /\ \E steps \in SeqsUpTo(StepPool, MaxSteps), host \in {<<>>, V_h1},
          service \in {<<>>, V_web}, monitor \in {<<>>, V_cpu} :
        /\ call' = [fn |-> "_render_runbook", steps |-> steps, host |-> host,
                    service |-> service, monitor |-> monitor]
        /\ ret' = _render_runbook(steps, host, service, monitor)
        /\ UNCHANGED <<settings, _routes, telegram, axiom, stop_event, auto_task>>

NextRender == Call_render_runbook

SpecRender == InitRender /\ [][NextRender]_vars

\* the text of a step with every "{host}", "{service}" and "{monitor}"
\* replaced by the given texts
RECURSIVE Substituted(_, _, _, _)
Substituted(step, h, s, m) ==
    LET Braced(k) == <<"{">> \o k \o <<"}">>
        Rest(k) == SubSeq(step, Len(Braced(k)) + 1, Len(step))
    IN  IF step = <<>> THEN <<>>
        ELSE IF startswith(step, Braced(K_host))
        THEN h \o Substituted(Rest(K_host), h, s, m)
        ELSE IF startswith(step, Braced(K_service))
        THEN s \o Substituted(Rest(K_service), h, s, m)
        ELSE IF startswith(step, Braced(K_monitor))
        THEN m \o Substituted(Rest(K_monitor), h, s, m)
        ELSE <<step[1]>> \o Substituted(Tail(step), h, s, m)

\* the steps made of text and of the three placeholders only
PlainSteps == {Step_service, Step_profile, Step_default}

\* what stands for a value in the rendered text
Shown(value, phrase) == IF value = <<>> THEN phrase ELSE value

\* C12: _render_runbook substitutes {host}, {service} and {monitor} in each
\* step, and an empty host, service or monitor is rendered as its fixed
\* non-empty phrase, never as the empty string.
C12_RenderSubstitutes ==
    (/\ call.fn = "_render_runbook"
     /\ \A i \in 1..Len(call.steps) : call.steps[i] \in PlainSteps) =>
        /\ HostPhrase # <<>> /\ ServicePhrase # <<>> /\ MonitorPhrase # <<>>
        /\ ret.exc = "none"
        /\ Len(ret.val) = Len(call.steps)
        /\ \A i \in 1..Len(call.steps) :
            ret.val[i] = Substituted(call.steps[i],
                                     Shown(call.host, HostPhrase),
                                     Shown(call.service, ServicePhrase),
                                     Shown(call.monitor, MonitorPhrase))

\* "restart {service} on {host}" with host "" and service "web" renders as
\* "restart web on " followed by the host phrase
C12_Witness ==
    /\ call.fn = "_render_runbook"
    /\ call.steps = <<Step_service>>
    /\ call.host = <<>>
    /\ call.service = V_web
    /\ ret = Returns(<<
          <<"r", "e", "s", "t", "a", "r", "t", " ", "w", "e", "b", " ",
            "o", "n", " ">>
         \o HostPhrase>>)

\* the steps that name the placeholder the renderer has no value for
ReferencesContainer(step) == In(<<"{">> \o K_container, step)

\* C13 as stated: for a runbook that placeholder validation accepts,
\* _render_runbook does not raise and returns one step per input step in the
\* same order: a step that names {container} unchanged, every other step
\* rendered.
C13_ValidatedRunbookRenders ==
    (/\ call.fn = "_render_runbook"
     /\ _validate_placeholders(call.steps) = {}) =>
        /\ ret.exc = "none"
        /\ Len(ret.val) = Len(call.steps)
        /\ \A i \in 1..Len(call.steps) :
            LET r == format(call.steps[i], Shown(call.host, HostPhrase),
                            Shown(call.service, ServicePhrase),
                            Shown(call.monitor, MonitorPhrase))
            IN  IF ReferencesContainer(call.steps[i])
                THEN ret.val[i] = call.steps[i]
                ELSE r.exc = "none" /\ ret.val[i] = r.val

----------------------------------------------------------------------------
(* Message summaries: _most_common and _sample_messages *)

MaxMessages == 4

MaxSampleCount == 3

\* int(value) of a str: a run of decimal digits, with a sign in front or not
IsIntLiteral(s) ==
    \/ IsDigits(s)
    \/ Len(s) >= 2 /\ s[1] = "-" /\ IsDigits(Tail(s))

\* _coerce_int(value, fallback)
_coerce_int(value, fallback) ==
    IF value.t = "int" THEN value.n
    ELSE IF value.t = "str"
    THEN IF IsDigits(value.s) THEN ParseNat(value.s)
         ELSE IF IsIntLiteral(value.s) THEN 0 - ParseNat(Tail(value.s))
         ELSE fallback
    ELSE fallback

\* the counts dictionary of _most_common after the loop over values, as its
\* items in insertion order
RECURSIVE count_values(_, _)
count_values(values, counts) ==
    IF values = <<>> THEN counts
    ELSE LET value == values[1]
             at == {i \in 1..Len(counts) : counts[i].key = value}
         IN  IF at = {}
             THEN count_values(Tail(values),
                               Append(counts, [key |-> value, n |-> 1]))
             ELSE count_values(Tail(values),
                               [i \in 1..Len(counts) |->
                                   IF i \in at
                                   THEN [counts[i] EXCEPT !.n = @ + 1]
                                   ELSE counts[i]])

\* max(items, key=count): the first item whose count no other item exceeds
RECURSIVE max_by_count(_, _)
max_by_count(items, best) ==
    IF items = <<>> THEN best
    ELSE IF items[1].n > best.n THEN max_by_count(Tail(items), items[1])
    ELSE max_by_count(Tail(items), best)

\* max(items, key=count) that keeps the last of the items with the top count
RECURSIVE max_by_count_last(_, _)
max_by_count_last(items, best) ==
    IF items = <<>> THEN best
    ELSE IF items[1].n >= best.n THEN max_by_count_last(Tail(items), items[1])
    ELSE max_by_count_last(Tail(items), best)

\* _most_common that breaks ties in favour of the value met last
most_common_last_tie(values) ==
    IF values = <<>> THEN PyNone
    ELSE LET counts == count_values(values, <<>>)
         IN  PyStr(max_by_count_last(Tail(counts), counts[1]).key)

\* _most_common(values)
_most_common(values) ==
    IF values = <<>> THEN PyNone
    ELSE LET counts == count_values(values, <<>>)
         IN  PyStr(max_by_count(Tail(counts), counts[1]).key)

\* the loop of _sample_messages
RECURSIVE sample_loop(_, _, _, _)
sample_loop(messages, sample_count, seen, samples) ==
    IF messages = <<>> THEN samples
    ELSE IF messages[1] \in seen
    THEN sample_loop(Tail(messages), sample_count, seen, samples)
    ELSE IF Len(samples) + 1 >= sample_count THEN Append(samples, messages[1])
    ELSE sample_loop(Tail(messages), sample_count, seen \cup {messages[1]},
                     Append(samples, messages[1]))

\* _sample_messages(messages, sample_count)
_sample_messages(messages, sample_count) ==
    sample_loop(messages, sample_count, {}, <<>>)

\* messages of the matched rows
M_A == <<"A">>
M_B == <<"B">>
M_C == <<"C">>

MessageLists == SeqsUpTo({M_A, M_B, M_C}, MaxMessages)

\* values of defaults.sample_count in the configuration
SampleCountValues ==
    {Absent, PyStr(<<"x">>), PyStr(<<"1">>)}
        \cup {PyInt(n) : n \in 0..MaxSampleCount}

InitSummary ==
    /\ _routes = BaseConfig
    /\ settings = DefaultSettings
    /\ call = NoCall
    /\ ret = Returns(FALSE)
    /\ telegram = <<>>
    /\ axiom = <<>>
    /\ stop_event = FALSE
    /\ auto_task = NoTask

Call_most_common ==
    /\ call = NoCall
    /\ \E values \in MessageLists :
        /\ call' = [fn |-> "_most_common", values |-> values]
        /\ ret' = Returns(_most_common(values))
        /\ UNCHANGED <<settings, _routes, telegram, axiom, stop_event, auto_task>>

\* lines 1168-1169 of axiom_webhook: the configured count is coerced, then
\* the messages are sampled
Call_sample_messages ==
    /\ call = NoCall
    /\ \E messages \in MessageLists, configured \in SampleCountValues :
        /\ call' = [fn |-> "_sample_messages", messages |-> messages,
                    configured |-> configured,
                    sample_count |-> _coerce_int(configured, 2)]
        /\ ret' = Returns(_sample_messages(messages, _coerce_int(configured, 2)))
        /\ UNCHANGED <<settings, _routes, telegram, axiom, stop_event, auto_task>>

NextSummary == Call_most_common \/ Call_sample_messages

SpecSummary == InitSummary /\ [][NextSummary]_vars

\* how often a value occurs in a list, and where it occurs first
Count(v, l) == Cardinality({i \in 1..Len(l) : l[i] = v})

FirstIndex(v, l) == CHOOSE i \in 1..Len(l) : l[i] = v /\ \A j \in 1..(i - 1) : l[j] # v

\* C14: _most_common returns a message whose count in the list is maximal,
\* and among those the one that occurs first; for the empty list it returns
\* None.
C14_MostCommonFirstOfTop ==
    call.fn = "_most_common" =>
        IF call.values = <<>> THEN ret = Returns(PyNone)
        ELSE /\ ret.val.t = "str"
             /\ ret.val.s \in Elems(call.values)
             /\ \A v \in Elems(call.values) :
                 /\ Count(v, call.values) <= Count(ret.val.s, call.values)
                 /\ Count(v, call.values) = Count(ret.val.s, call.values) =>
                        FirstIndex(ret.val.s, call.values) <= FirstIndex(v, call.values)

\* "A" and "B" occur twice each, "A" first: "A" is returned
C14_Witness ==
    /\ call.fn = "_most_common"
    /\ call.values = <<M_A, M_B, M_B, M_A>>
    /\ ret = Returns(PyStr(M_A))

\* the distinct messages of a list in the order they are first met
Distinct(l) == unique(l, {})

\* C15 as stated: _sample_messages returns the first N distinct messages in
\* encounter order, all of them when there are fewer than N, for every
\* configured count N >= 0 and for the default 2; the result has at most N
\* elements and no duplicate.
C15_FirstNDistinct ==
    (call.fn = "_sample_messages" /\ call.sample_count >= 0) =>
        LET N == call.sample_count
            d == Distinct(call.messages)
        IN  /\ call.configured = Absent => N = 2
            /\ ret = Returns(SubSeq(d, 1, IF Len(d) < N THEN Len(d) ELSE N))
            /\ Len(ret.val) <= N
            /\ \A i, j \in 1..Len(ret.val) : ret.val[i] = ret.val[j] => i = j

----------------------------------------------------------------------------
(* Delivery: send_message *)

\* the length above which send_message cuts a text, and the length of the
\* prefix it keeps
TextLimit == 4000

KeptPrefix == 3997

\* how far the lengths of the texts sent lie from TextLimit
MaxExcess == 8

\* the single character U+2026 that ends a cut text
Ellipsis == "..."

\* the text send_message posts for a text
truncated(text) ==
    IF Len(text) > TextLimit THEN SubSeq(text, 1, KeptPrefix) \o <<Ellipsis>>
    ELSE text

\* the request body of sendMessage
Payload(text, chat_id, topic_id) ==
    [chat_id |-> chat_id, text |-> truncated(text), parse_mode |-> "HTML",
     message_thread_id |-> IF topic_id = PyNone THEN Absent ELSE topic_id]

\* what the Telegram API does with a request
ApiOutcomes == {"success", "error status", "exception"}

\* a text of n characters, its characters told apart by their position
TextOf(n) == [i \in 1..n |-> Digit(i % 10)]

TextLengths ==
    {0, 1, 4500} \cup ((TextLimit - MaxExcess)..(TextLimit + MaxExcess))

S_chat == <<"-", "1", "0", "0", "1">>

InitSend ==
    /\ _routes = BaseConfig
    /\ settings = DefaultSettings
    /\ call = NoCall
    /\ ret = Returns(FALSE)
    /\ telegram = <<>>
    /\ axiom = <<>>
    /\ stop_event = FALSE
    /\ auto_task = NoTask

\* send_message(text, chat_id, topic_id)
Call_send_message ==
    /\ call = NoCall
    /\ \E n \in TextLengths, chat_id \in {<<>>, S_chat},
          topic_id \in {PyNone, PyInt(12)}, outcome \in ApiOutcomes :
        /\ call' = [fn |-> "send_message", text |-> TextOf(n),
                    chat_id |-> chat_id, topic_id |-> topic_id]
        /\ IF chat_id = <<>>
           THEN /\ ret' = Returns(FALSE)
                /\ telegram' = telegram
           ELSE /\ ret' = Returns(outcome = "success")
                /\ telegram' = Append(telegram,
                                      Payload(TextOf(n), chat_id, topic_id))
        /\ UNCHANGED <<settings, _routes, axiom, stop_event, auto_task>>

NextSend == Call_send_message

SpecSend == InitSend /\ [][NextSend]_vars

\* C16 as stated: send_message posts a text of at most 4000 characters as it
\* is, and cuts a longer one to exactly 4000 characters: a prefix of the
\* text followed by the ellipsis character.
C16_TruncatesTo4000 ==
    (call.fn = "send_message" /\ telegram # <<>>) =>
        LET text == call.text
            sent == telegram[Len(telegram)].text
        IN  IF Len(text) <= 4000 THEN sent = text
            ELSE /\ Len(sent) = 4000
                 /\ sent[Len(sent)] = Ellipsis
                 /\ SubSeq(sent, 1, Len(sent) - 1) = SubSeq(text, 1, Len(sent) - 1)

----------------------------------------------------------------------------
(* Alert status: _extract_alert_status *)

\* the first position at which sep occurs in s, 0 if it does not occur
find(s, sep) ==
    LET At == {i \in 1..(Len(s) - Len(sep) + 1) :
                  SubSeq(s, i, i + Len(sep) - 1) = sep}
    IN  IF At = {} THEN 0 ELSE CHOOSE i \in At : \A j \in At : i <= j

\* the last position at which sep occurs in s, 0 if it does not occur
rfind(s, sep) ==
    LET At == {i \in 1..(Len(s) - Len(sep) + 1) :
                  SubSeq(s, i, i + Len(sep) - 1) = sep}
    IN  IF At = {} THEN 0 ELSE CHOOSE i \in At : \A j \in At : i >= j

\* the separator between the status prefix and the monitor name
StatusSeparator == <<":", " ">>

W_triggered ==
      <<"t", "r", "i", "g", "g", "e", "r", "e", "d">>

W_resolved ==
      <<"r", "e", "s", "o", "l", "v", "e", "d">>

\* the status and name for a name cut at position i of the separator
status_at(name, i) ==
    LET prefix == SubSeq(name, 1, i - 1)
        rest == SubSeq(name, i + Len(StatusSeparator), Len(name))
        status == lower(prefix)
    IN  IF status \in {W_triggered, W_resolved}
        THEN [status |-> PyStr(status), name |-> rest]
        ELSE [status |-> PyNone, name |-> name]

\* _extract_alert_status that cuts the name at the last separator
extract_alert_status_last_separator(name) ==
    IF ~In(StatusSeparator, name) THEN [status |-> PyNone, name |-> name]
    ELSE status_at(name, rfind(name, StatusSeparator))

\* _extract_alert_status(name): (status, name)
_extract_alert_status(name) ==
    IF ~In(StatusSeparator, name) THEN [status |-> PyNone, name |-> name]
    ELSE status_at(name, find(name, StatusSeparator))

\* monitor names: a prefix, a separator, a rest
NamePrefixes ==
    {<<>>, W_triggered, W_resolved,
      <<"T", "r", "i", "g", "g", "e", "r", "e", "d">>,
      <<"R", "E", "S", "O", "L", "V", "E", "D">>,
      <<"I", "n", "f", "o">>,
      <<"t", "r", "i", "g", "g", "e", "r", "e", "d", " ">>,
      <<"r", "e">>}

NameSeparators == {<<>>, <<":">>, <<":", " ">>, <<" ", ":", " ">>}

NameRests ==
    {<<>>,
      <<"c", "p", "u">>,
      <<"a", ":", " ", "b">>,
      <<"r", "e", "s", "o", "l", "v", "e", "d", ":", " ", "x">>}

MonitorNames ==
    {p \o sep \o r : p \in NamePrefixes, sep \in NameSeparators, r \in NameRests}

InitStatus ==
    /\ _routes = BaseConfig
    /\ settings = DefaultSettings
    /\ call = NoCall
    /\ ret = Returns(FALSE)
    /\ telegram = <<>>
    /\ axiom = <<>>
    /\ stop_event = FALSE
    /\ auto_task = NoTask

Call_extract_alert_status ==
    /\ call = NoCall
    /\ \E name \in MonitorNames :
        /\ call' = [fn |-> "_extract_alert_status", name |-> name]
        /\ ret' = Returns(_extract_alert_status(name))
        /\ UNCHANGED <<settings, _routes, telegram, axiom, stop_event, auto_task>>

NextStatus == Call_extract_alert_status

SpecStatus == InitStatus /\ [][NextStatus]_vars

\* a text equals a lower-case word but for the case of its letters
SameWord(text, word) ==
    /\ Len(text) = Len(word)
    /\ \A i \in 1..Len(word) :
        \/ text[i] = word[i]
        \/ /\ Ord("a") <= Ord(word[i]) /\ Ord(word[i]) <= Ord("z")
           /\ Ord(text[i]) = Ord(word[i]) - (Ord("a") - Ord("A"))

\* C20: _extract_alert_status cuts the monitor name at the first ": "; when
\* the prefix is triggered or resolved in any case of letters the status is
\* that word and the name is what follows; otherwise (no ": ", or another
\* prefix) there is no status and the name is returned as it is.
C20_StatusFromPrefix ==
    call.fn = "_extract_alert_status" =>
        LET name == call.name
            Cuts == {i \in 1..(Len(name) - 1) :
                        name[i] = ":" /\ name[i + 1] = " "}
        IN  IF Cuts = {} THEN ret = Returns([status |-> PyNone, name |-> name])
            ELSE LET i == CHOOSE c \in Cuts : \A d \in Cuts : c <= d
                     prefix == SubSeq(name, 1, i - 1)
                     rest == SubSeq(name, i + 2, Len(name))
                 IN  IF SameWord(prefix, W_triggered)
                     THEN ret = Returns([status |-> PyStr(W_triggered), name |-> rest])
                     ELSE IF SameWord(prefix, W_resolved)
                     THEN ret = Returns([status |-> PyStr(W_resolved), name |-> rest])
                     ELSE ret = Returns([status |-> PyNone, name |-> name])

\* "RESOLVED: resolved: x" has the status resolved and the name "resolved: x"
C20_Witness ==
    /\ call.fn = "_extract_alert_status"
    /\ call.name =
      <<"R", "E", "S", "O", "L", "V", "E", "D", ":", " ", "r", "e",
        "s", "o", "l", "v", "e", "d", ":", " ", "x">>
    /\ ret = Returns([status |-> PyStr(W_resolved), name |->
      <<"r", "e", "s", "o", "l", "v", "e", "d", ":", " ", "x">>
          ])

----------------------------------------------------------------------------
(* JSON values of a webhook payload, and json.loads as _coerce_event_body
   uses it.  A JSON object is a dict whose keys are str; numbers are
   integers (the texts considered hold no fraction and no exponent) and
   string escapes are the two-character ones (no \u). *)

PyDict(d) == [t |-> "dict", d |-> d]

PyBool(b) == [t |-> "bool", s |-> <<>>, n |-> IF b THEN 1 ELSE 0, l |-> <<>>]

\* the dict with no key
EmptyPyDict == PyDict(<<>>)

\* d.get(key) of a dict value
dict_get(d, key) == IF key \in DOMAIN d.d THEN d.d[key] ELSE PyNone

\* bool(value) is False
FalsyValue(v) ==
    IF v.t = "dict" THEN DOMAIN v.d = {}
    ELSE IF v.t = "bool" THEN v.n = 0
    ELSE Falsy(v)

\* the character at position i, "" past the end of the text
CharAt(s, i) == IF i <= Len(s) THEN s[i] ELSE ""

JsonWhitespace == {" ", "\t", "\n", "\r"}

RECURSIVE skip_whitespace(_, _)
skip_whitespace(s, i) ==
    IF CharAt(s, i) \in JsonWhitespace THEN skip_whitespace(s, i + 1) ELSE i

\* the result of scanning a value: the value and the position after it
JsonFail == [ok |-> FALSE, val |-> PyNone, next |-> 0]

JsonOk(v, next) == [ok |-> TRUE, val |-> v, next |-> next]

\* the character a two-character escape stands for
Unescaped(c) ==
    CASE c = "n" -> "\n" [] c = "t" -> "\t" [] c = "r" -> "\r"
      [] c = "b" -> "<backspace>" [] c = "f" -> "<form feed>" [] OTHER -> c

\* the characters of a string from position i (after the opening quote) to
\* its closing quote
RECURSIVE scan_string(_, _, _)
scan_string(s, i, chars) ==
    IF i > Len(s) THEN JsonFail
    ELSE IF s[i] = "\"" THEN JsonOk(chars, i + 1)
    ELSE IF s[i] = "\\"
    THEN IF CharAt(s, i + 1) \in {"\"", "\\", "/", "b", "f", "n", "r", "t"}
         THEN scan_string(s, i + 2, Append(chars, Unescaped(s[i + 1])))
         ELSE JsonFail
    ELSE scan_string(s, i + 1, Append(chars, s[i]))

\* the position after the digits that start at i
RECURSIVE digits_end(_, _)
digits_end(s, i) ==
    IF IsDigits(<<CharAt(s, i)>>) THEN digits_end(s, i + 1) ELSE i

\* an integer: an optional minus sign, then 0 or a digit run that does not
\* start with 0
scan_number(s, i) ==
    LET first == IF CharAt(s, i) = "-" THEN i + 1 ELSE i
        last == IF CharAt(s, first) = "0" THEN first + 1 ELSE digits_end(s, first)
        n == ParseNat(SubSeq(s, first, last - 1))
    IN  IF last = first THEN JsonFail
        ELSE JsonOk(PyInt(IF first > i THEN 0 - n ELSE n), last)

RECURSIVE scan_value(_, _)
RECURSIVE scan_members(_, _, _)
RECURSIVE scan_items(_, _, _)

\* the members of an object from position i, where a key must start; a
\* repeated key keeps its last value
scan_members(s, i, d) ==
    IF CharAt(s, i) # "\"" THEN JsonFail
    ELSE LET key == scan_string(s, i + 1, <<>>)
         IN  IF ~key.ok THEN JsonFail
             ELSE LET colon == skip_whitespace(s, key.next)
                  IN  IF CharAt(s, colon) # ":" THEN JsonFail
                      ELSE LET value == scan_value(s, skip_whitespace(s, colon + 1))
                           IN  IF ~value.ok THEN JsonFail
                               ELSE LET after == skip_whitespace(s, value.next)
                                        members == (key.val :> value.val) @@ d
                                    IN  IF CharAt(s, after) = "}"
                                        THEN JsonOk(PyDict(members), after + 1)
                                        ELSE IF CharAt(s, after) = ","
                                        THEN scan_members(s, skip_whitespace(s, after + 1),
                                                          members)
                                        ELSE JsonFail

\* the items of an array from position i, where a value must start
scan_items(s, i, items) ==
    LET value == scan_value(s, i)
    IN  IF ~value.ok THEN JsonFail
        ELSE LET after == skip_whitespace(s, value.next)
             IN  IF CharAt(s, after) = "]"
                 THEN JsonOk(PyList(Append(items, value.val)), after + 1)
                 ELSE IF CharAt(s, after) = ","
                 THEN scan_items(s, skip_whitespace(s, after + 1),
                                 Append(items, value.val))
                 ELSE JsonFail

\* the value that starts at position i
scan_value(s, i) ==
    LET c == CharAt(s, i)
    IN  IF c = "\"" THEN LET str == scan_string(s, i + 1, <<>>)
                         IN  IF str.ok THEN JsonOk(PyStr(str.val), str.next)
                             ELSE JsonFail
        ELSE IF c = "{"
        THEN LET j == skip_whitespace(s, i + 1)
             IN  IF CharAt(s, j) = "}" THEN JsonOk(EmptyPyDict, j + 1)
                 ELSE scan_members(s, j, <<>>)
        ELSE IF c = "["
        THEN LET j == skip_whitespace(s, i + 1)
             IN  IF CharAt(s, j) = "]" THEN JsonOk(PyList(<<>>), j + 1)
                 ELSE scan_items(s, j, <<>>)
        ELSE IF startswith(SubSeq(s, i, Len(s)), <<"n", "u", "l", "l">>)
        THEN JsonOk(PyNone, i + 4)
        ELSE IF startswith(SubSeq(s, i, Len(s)), <<"t", "r", "u", "e">>)
        THEN JsonOk(PyBool(TRUE), i + 4)
        ELSE IF startswith(SubSeq(s, i, Len(s)), <<"f", "a", "l", "s", "e">>)
        THEN JsonOk(PyBool(FALSE), i + 5)
        ELSE IF c = "-" \/ IsDigits(<<c>>) THEN scan_number(s, i)
        ELSE JsonFail

\* json.loads(s): the value, or JSONDecodeError
json_loads(s) ==
    LET value == scan_value(s, skip_whitespace(s, 1))
    IN  IF value.ok /\ skip_whitespace(s, value.next) = Len(s) + 1
        THEN Returns(value.val)
        ELSE Raises("JSONDecodeError")

----------------------------------------------------------------------------
(* Extraction of the alert fields from a webhook payload *)

\* the keys the extraction reads
K_name ==
    <<"n", "a", "m", "e">>

K_monitorName ==
    <<"m", "o", "n", "i", "t", "o", "r", "N", "a", "m", "e">>

K_alert ==
    <<"a", "l", "e", "r", "t">>

K_title ==
    <<"t", "i", "t", "l", "e">>

K_description ==
    <<"d", "e", "s", "c", "r", "i", "p", "t", "i", "o", "n">>

K_matchedCount ==
    <<"m", "a", "t", "c", "h", "e", "d", "C", "o", "u", "n", "t">>

K_matchCount ==
    <<"m", "a", "t", "c", "h", "C", "o", "u", "n", "t">>

K_matches ==
    <<"m", "a", "t", "c", "h", "e", "s">>

K_count ==
    <<"c", "o", "u", "n", "t">>

K_result ==
    <<"r", "e", "s", "u", "l", "t">>

K_value ==
    <<"v", "a", "l", "u", "e">>

K_valueString ==
    <<"v", "a", "l", "u", "e", "S", "t", "r", "i", "n", "g">>

K_extraCount ==
    <<"e", "x", "t", "r", "a", "C", "o", "u", "n", "t">>

K_queryStartTime ==
    <<"q", "u", "e", "r", "y", "S", "t", "a", "r", "t", "T", "i", "m",
      "e">>

K_queryEndTime ==
    <<"q", "u", "e", "r", "y", "E", "n", "d", "T", "i", "m", "e">>

K_window ==
    <<"w", "i", "n", "d", "o", "w">>

K_start ==
    <<"s", "t", "a", "r", "t">>

K_end ==
    <<"e", "n", "d">>

K_query ==
    <<"q", "u", "e", "r", "y">>

K_startTime ==
    <<"s", "t", "a", "r", "t", "T", "i", "m", "e">>

K_endTime ==
    <<"e", "n", "d", "T", "i", "m", "e">>

K_event ==
    <<"e", "v", "e", "n", "t">>

K_body ==
    <<"b", "o", "d", "y">>

K_queryResult ==
    <<"q", "u", "e", "r", "y", "R", "e", "s", "u", "l", "t">>

\* repr(v) and str(v) of a JSON value; the items of a dict are written in
\* the order of their keys
RECURSIVE repr_value(_)
RECURSIVE repr_items(_, _)
repr_value(v) ==
    CASE v.t = "str" -> <<"'">> \o v.s \o <<"'">>
      [] v.t = "int" -> IntStr(v.n)
      [] v.t = "bool" -> IF v.n = 1 THEN <<"T", "r", "u", "e">>
                         ELSE <<"F", "a", "l", "s", "e">>
      [] v.t = "list" ->
            <<"[">> \o repr_items([i \in 1..Len(v.l) |-> repr_value(v.l[i])], 1)
                \o <<"]">>
      [] v.t = "dict" ->
            LET keys == sorted(DOMAIN v.d)
            IN  <<"{">> \o repr_items([i \in 1..Len(keys) |->
                                          <<"'">> \o keys[i] \o <<"'", ":", " ">>
                                              \o repr_value(v.d[keys[i]])], 1)
                    \o <<"}">>
      [] OTHER -> <<"N", "o", "n", "e">>

\* ", ".join(texts[i:])
repr_items(texts, i) ==
    IF i > Len(texts) THEN <<>>
    ELSE IF i = Len(texts) THEN texts[i]
    ELSE texts[i] \o <<",", " ">> \o repr_items(texts, i + 1)

str_value(v) == IF v.t = "str" THEN v.s ELSE repr_value(v)

\* str(value or "")
str_or_empty(v) == IF FalsyValue(v) THEN <<>> ELSE str_value(v)

\* the value of an expression evaluated once: the element of {expression}
The(S) == CHOOSE x \in S : TRUE

\* _get_nested(payload, *keys)
RECURSIVE _get_nested(_, _)
_get_nested(current, keys) ==
    IF keys = <<>> THEN current
    ELSE IF current.t # "dict" THEN PyNone
    ELSE IF dict_get(current, keys[1]) = PyNone THEN PyNone
    ELSE _get_nested(dict_get(current, keys[1]), Tail(keys))

\* value not in (None, "")
NotEmpty(v) == v # PyNone /\ v # PyStr(<<>>)

\* _first_value that returns the last value that is not empty
RECURSIVE first_value_takes_last(_)
first_value_takes_last(values) ==
    IF values = <<>> THEN PyNone
    ELSE IF NotEmpty(values[Len(values)]) THEN values[Len(values)]
    ELSE first_value_takes_last(SubSeq(values, 1, Len(values) - 1))

\* _first_value(*values)
RECURSIVE _first_value(_)
_first_value(values) ==
    IF values = <<>> THEN PyNone
    ELSE IF NotEmpty(values[1]) THEN values[1]
    ELSE _first_value(Tail(values))

\* _coerce_event_body that does not decode a body given as a str
coerce_event_body_inline_only(event) ==
    The({IF body.t = "dict" THEN body ELSE PyNone : body \in {dict_get(event, K_body)}})

\* _coerce_event_body(event)
_coerce_event_body(event) ==
    The({IF body.t = "dict" THEN body
         ELSE IF body.t = "str"
         THEN The({IF parsed.exc # "none" THEN PyNone
                   ELSE IF parsed.val.t = "dict" THEN parsed.val
                   ELSE PyNone : parsed \in {json_loads(body.s)}})
         ELSE PyNone : body \in {dict_get(event, K_body)}})

\* event_dict of a payload, and body_dict of an event_dict
event_dict(payload) ==
    IF dict_get(payload, K_event).t = "dict" THEN dict_get(payload, K_event)
    ELSE EmptyPyDict

body_dict(event) ==
    The({IF FalsyValue(body) THEN EmptyPyDict ELSE body :
             body \in {_coerce_event_body(event)}})

\* the three dicts the candidates are read from
Roots(payload) ==
    The({[payload |-> payload, event |-> event, body |-> body_dict(event)] :
             event \in {event_dict(payload)}})

\* the roots _coerce_matches probes
match_roots(payload) ==
    The({<<payload>>
             \o (IF FalsyValue(roots.event) THEN <<>> ELSE <<roots.event>>)
             \o (IF FalsyValue(roots.body) THEN <<>> ELSE <<roots.body>>) :
                 roots \in {Roots(payload)}})

\* the locations probed in each root, in order
MatchLocations ==
    <<<<K_queryResult, K_matches>>, <<K_result, K_matches>>,
      <<K_matches, K_matches>>, <<K_alert, K_matches>>, <<K_matches>>>>

\* the items of a list that are dicts
RECURSIVE dict_items(_)
dict_items(l) ==
    IF l = <<>> THEN <<>>
    ELSE IF l[1].t = "dict" THEN <<l[1]>> \o dict_items(Tail(l))
    ELSE dict_items(Tail(l))

\* the loops of _coerce_matches from root r and location c on
RECURSIVE probe_matches(_, _, _)
probe_matches(roots, r, c) ==
    IF r > Len(roots) THEN <<>>
    ELSE IF c > Len(MatchLocations) THEN probe_matches(roots, r + 1, 1)
    ELSE LET candidate == _get_nested(roots[r], MatchLocations[c])
         IN  IF candidate.t = "list" THEN dict_items(candidate.l)
             ELSE probe_matches(roots, r, c + 1)

\* _coerce_matches(payload)
_coerce_matches(payload) ==
    The({probe_matches(roots, 1, 1) : roots \in {match_roots(payload)}})

\* the candidates of the monitor name (lines 851-868)
NameAliases ==
    <<[root |-> "payload", path |-> <<K_name>>],
      [root |-> "payload", path |-> <<K_monitorName>>],
      [root |-> "payload", path |-> <<K_monitor, K_name>>],
      [root |-> "payload", path |-> <<K_alert, K_monitor, K_name>>],
      [root |-> "payload", path |-> <<K_alert, K_monitorName>>],
      [root |-> "event", path |-> <<K_title>>],
      [root |-> "event", path |-> <<K_monitor, K_name>>],
      [root |-> "event", path |-> <<K_monitorName>>],
      [root |-> "event", path |-> <<K_alert, K_monitor, K_name>>],
      [root |-> "event", path |-> <<K_alert, K_monitorName>>],
      [root |-> "body", path |-> <<K_name>>],
      [root |-> "body", path |-> <<K_title>>],
      [root |-> "body", path |-> <<K_monitor, K_name>>],
      [root |-> "body", path |-> <<K_monitorName>>],
      [root |-> "body", path |-> <<K_alert, K_monitor, K_name>>],
      [root |-> "body", path |-> <<K_alert, K_monitorName>>]>>

\* the candidates of the description (lines 869-879)
DescriptionAliases ==
    <<[root |-> "payload", path |-> <<K_description>>],
      [root |-> "payload", path |-> <<K_monitor, K_description>>],
      [root |-> "payload", path |-> <<K_alert, K_monitor, K_description>>],
      [root |-> "event", path |-> <<K_description>>],
      [root |-> "event", path |-> <<K_monitor, K_description>>],
      [root |-> "event", path |-> <<K_alert, K_monitor, K_description>>],
      [root |-> "body", path |-> <<K_description>>],
      [root |-> "body", path |-> <<K_monitor, K_description>>],
      [root |-> "body", path |-> <<K_alert, K_monitor, K_description>>]>>

\* the candidates of the matched count (lines 880-899)
MatchedCountAliases ==
    <<[root |-> "payload", path |-> <<K_matchedCount>>],
      [root |-> "payload", path |-> <<K_alert, K_matchedCount>>],
      [root |-> "payload", path |-> <<K_alert, K_matchCount>>],
      [root |-> "payload", path |-> <<K_matches, K_count>>],
      [root |-> "payload", path |-> <<K_result, K_count>>],
      [root |-> "event", path |-> <<K_value>>],
      [root |-> "event", path |-> <<K_valueString>>],
      [root |-> "event", path |-> <<K_extraCount>>],
      [root |-> "event", path |-> <<K_matchedCount>>],
      [root |-> "event", path |-> <<K_alert, K_matchedCount>>],
      [root |-> "event", path |-> <<K_alert, K_matchCount>>],
      [root |-> "event", path |-> <<K_matches, K_count>>],
      [root |-> "event", path |-> <<K_result, K_count>>],
      [root |-> "body", path |-> <<K_matchedCount>>],
      [root |-> "body", path |-> <<K_alert, K_matchedCount>>],
      [root |-> "body", path |-> <<K_alert, K_matchCount>>],
      [root |-> "body", path |-> <<K_matches, K_count>>],
      [root |-> "body", path |-> <<K_result, K_count>>]>>

\* the candidates of the window start (lines 903-919)
StartAliases ==
    <<[root |-> "payload", path |-> <<K_queryStartTime>>],
      [root |-> "payload", path |-> <<K_alert, K_window, K_start>>],
      [root |-> "payload", path |-> <<K_window, K_start>>],
      [root |-> "payload", path |-> <<K_query, K_startTime>>],
      [root |-> "payload", path |-> <<K_startTime>>],
      [root |-> "event", path |-> <<K_queryStartTime>>],
      [root |-> "event", path |-> <<K_alert, K_window, K_start>>],
      [root |-> "event", path |-> <<K_window, K_start>>],
      [root |-> "event", path |-> <<K_query, K_startTime>>],
      [root |-> "event", path |-> <<K_startTime>>],
      [root |-> "body", path |-> <<K_queryStartTime>>],
      [root |-> "body", path |-> <<K_alert, K_window, K_start>>],
      [root |-> "body", path |-> <<K_window, K_start>>],
      [root |-> "body", path |-> <<K_query, K_startTime>>],
      [root |-> "body", path |-> <<K_startTime>>]>>

\* the candidates of the window end (lines 920-936)
EndAliases ==
    <<[root |-> "payload", path |-> <<K_queryEndTime>>],
      [root |-> "payload", path |-> <<K_alert, K_window, K_end>>],
      [root |-> "payload", path |-> <<K_window, K_end>>],
      [root |-> "payload", path |-> <<K_query, K_endTime>>],
      [root |-> "payload", path |-> <<K_endTime>>],
      [root |-> "event", path |-> <<K_queryEndTime>>],
      [root |-> "event", path |-> <<K_alert, K_window, K_end>>],
      [root |-> "event", path |-> <<K_window, K_end>>],
      [root |-> "event", path |-> <<K_query, K_endTime>>],
      [root |-> "event", path |-> <<K_endTime>>],
      [root |-> "body", path |-> <<K_queryEndTime>>],
      [root |-> "body", path |-> <<K_alert, K_window, K_end>>],
      [root |-> "body", path |-> <<K_window, K_end>>],
      [root |-> "body", path |-> <<K_query, K_endTime>>],
      [root |-> "body", path |-> <<K_endTime>>]>>

\* the candidates of a field, in the order of its aliases
Candidates(roots, aliases) ==
    [i \in 1..Len(aliases) |-> _get_nested(roots[aliases[i].root], aliases[i].path)]

\* the matched count after the candidates: a dict gives its count entry, and
\* no count gives the number of match records if there are any
matched_count_of(first, matches) ==
    The({IF count = PyNone /\ matches # <<>> THEN PyInt(Len(matches)) ELSE count :
             count \in {IF first.t = "dict" THEN dict_get(first, K_count) ELSE first}})

\* _extract_axiom_alert_fields(payload)
_extract_axiom_alert_fields(payload) ==
    The({[name |-> str_or_empty(_first_value(Candidates(roots, NameAliases))),
          description |->
             str_or_empty(_first_value(Candidates(roots, DescriptionAliases))),
          matched_count |-> matched_count_of(first, matches),
          ts_start |-> str_or_empty(_first_value(Candidates(roots, StartAliases))),
          ts_end |-> str_or_empty(_first_value(Candidates(roots, EndAliases))),
          matches |-> matches] :
              roots \in {Roots(payload)},
              matches \in {_coerce_matches(payload)},
              first \in {_first_value(Candidates(Roots(payload), MatchedCountAliases))}})

----------------------------------------------------------------------------
(* Webhook payloads: a payload holds values at a few of the places the
   extraction reads, in the payload itself, in its event and in the body of
   the event; the body is an object or the JSON text of that object *)

MaxSlots == 2

\* json.dumps(v) as the sender of the webhook writes a body
RECURSIVE json_dumps(_)
RECURSIVE escaped(_)
escaped(s) ==
    IF s = <<>> THEN <<>>
    ELSE (IF s[1] \in {"\"", "\\"} THEN <<"\\", s[1]>> ELSE <<s[1]>>)
             \o escaped(Tail(s))

json_dumps(v) ==
    CASE v.t = "str" -> <<"\"">> \o escaped(v.s) \o <<"\"">>
      [] v.t = "int" -> IntStr(v.n)
      [] v.t = "bool" -> IF v.n = 1 THEN <<"t", "r", "u", "e">>
                         ELSE <<"f", "a", "l", "s", "e">>
      [] v.t = "list" ->
            <<"[">> \o repr_items([i \in 1..Len(v.l) |-> json_dumps(v.l[i])], 1)
                \o <<"]">>
      [] v.t = "dict" ->
            LET keys == sorted(DOMAIN v.d)
            IN  <<"{">> \o repr_items([i \in 1..Len(keys) |->
                                          <<"\"">> \o escaped(keys[i]) \o <<"\"", ":", " ">>
                                              \o json_dumps(v.d[keys[i]])], 1)
                    \o <<"}">>
      [] OTHER -> <<"n", "u", "l", "l">>

\* the dict that holds each value of entries at its path; a value at a path
\* stands in the way of values below it
RECURSIVE BuildDict(_)
BuildDict(entries) ==
    PyDict([k \in {e.path[1] : e \in entries} |->
        LET below == {[path |-> Tail(e.path), val |-> e.val] :
                         e \in {x \in entries : x.path[1] = k}}
        IN  IF \E e \in below : e.path = <<>>
            THEN (CHOOSE e \in below : e.path = <<>>).val
            ELSE BuildDict(below)])

\* the places of the match records: each location in each root
MatchSlots ==
    [i \in 1..(3 * Len(MatchLocations)) |->
        [root |-> <<"payload", "event", "body">>[((i - 1) \div Len(MatchLocations)) + 1],
         path |-> MatchLocations[((i - 1) % Len(MatchLocations)) + 1]]]

\* values found at the places
V_A == <<"A">>
V_B == <<"B", "\"", "\\", "b">>
V_t1 == <<"t", "1">>
V_t2 == <<"t", "2">>

NameValues == {PyStr(<<>>), PyStr(V_A), PyStr(V_B), PyInt(0)}

TimeValues == {PyStr(<<>>), PyStr(V_t1), PyStr(V_t2)}

CountValues ==
    {PyStr(<<>>), PyInt(0), PyDict(K_count :> PyInt(3)), EmptyPyDict}

MatchRecord(host) == PyDict(K_name :> PyStr(host))

MatchValues ==
    {PyList(<<>>), PyList(<<MatchRecord(V_A)>>),
     PyList(<<MatchRecord(V_B), PyStr(V_A), MatchRecord(V_A)>>), PyStr(V_A)}

\* the runs of at most MaxSlots consecutive places of a table of n places
PlacesUpTo(n) ==
    {i..(i + k - 1) : i \in 1..n, k \in 0..MaxSlots} \cap SUBSET (1..n)

\* the ways to hold values of a pool at such a run of places of a table
Assignments(slots, values) ==
    UNION {[I -> values] : I \in PlacesUpTo(Len(slots))}

\* the entries an assignment puts under a root
EntriesAt(slots, a, root) ==
    {[path |-> slots[i].path, val |-> a[i]] : i \in {j \in DOMAIN a : slots[j].root = root}}

\* the payload of an assignment; body tells how the body of the event is
\* given: "inline" as an object, "encoded" as the JSON text of that object
PayloadOf(slots, a, body) ==
    LET inBody == EntriesAt(slots, a, "body")
        bodyValue == IF body = "inline" THEN BuildDict(inBody)
                     ELSE PyStr(json_dumps(BuildDict(inBody)))
        inEvent == EntriesAt(slots, a, "event")
                       \cup (IF inBody = {} THEN {}
                             ELSE {[path |-> <<K_body>>, val |-> bodyValue]})
    IN  BuildDict(EntriesAt(slots, a, "payload")
                      \cup (IF inEvent = {} THEN {}
                            ELSE {[path |-> <<K_event>>, val |-> BuildDict(inEvent)]}))

PayloadsOf(slots, values) ==
    {PayloadOf(slots, a, body) : a \in Assignments(slots, values),
                                 body \in {"inline", "encoded"}}

\* bodies that are no object: texts that are not JSON, JSON texts of other
\* values, and values that are neither a str nor an object
BadBodies ==
    {PyStr(<<>>), PyStr(<<"{", "o", "o", "p", "s">>), PyStr(<<"[", "{", "\"", "n", "a", "m", "e", "\"", ":", " ", "\"", "A", "\"", "}", "]">>),
     PyStr(<<"5">>), PyStr(<<"\"", "A", "\"">>),
     PyStr(<<"n", "u", "l", "l">>), PyInt(5),
     PyList(<<MatchRecord(V_A)>>)}

\* payloads whose event holds a body that is no object, with a title or not
BadBodyPayloads ==
    {BuildDict({[path |-> <<K_event, K_body>>, val |-> body]}
                   \cup {[path |-> <<K_event, K_title>>, val |-> PyStr(V_A)] : x \in titled})
        : body \in BadBodies, titled \in {{}, {1}}}

\* payloads whose event is no object
BadEventPayloads ==
    {BuildDict({[path |-> <<K_event>>, val |-> event],
                [path |-> <<K_name>>, val |-> PyStr(V_A)]})
        : event \in {PyStr(V_B), PyNone, PyList(<<MatchRecord(V_A)>>)}}

MatchPayloads == PayloadsOf(MatchSlots, MatchValues)

Payloads ==
    PayloadsOf(NameAliases, NameValues)
        \cup PayloadsOf(MatchedCountAliases, CountValues)
        \cup PayloadsOf(StartAliases, TimeValues)
        \cup PayloadsOf(EndAliases, TimeValues)
        \cup MatchPayloads \cup BadBodyPayloads \cup BadEventPayloads

InitExtract ==
    /\ _routes = BaseConfig
    /\ settings = DefaultSettings
    /\ call = NoCall
    /\ ret = Returns(FALSE)
    /\ telegram = <<>>
    /\ axiom = <<>>
    /\ stop_event = FALSE
    /\ auto_task = NoTask

Call_extract_axiom_alert_fields ==
    /\ call = NoCall
    /\ \E payload \in Payloads :
        /\ call' = [fn |-> "_extract_axiom_alert_fields", payload |-> payload]
        /\ ret' = Returns(_extract_axiom_alert_fields(payload))
        /\ UNCHANGED <<settings, _routes, telegram, axiom, stop_event, auto_task>>

Call_coerce_matches ==
    /\ call = NoCall
    /\ \E payload \in MatchPayloads \cup BadBodyPayloads \cup BadEventPayloads :
        /\ call' = [fn |-> "_coerce_matches", payload |-> payload]
        /\ ret' = Returns(_coerce_matches(payload))
        /\ UNCHANGED <<settings, _routes, telegram, axiom, stop_event, auto_task>>

NextExtract == Call_extract_axiom_alert_fields \/ Call_coerce_matches

SpecExtract == InitExtract /\ [][NextExtract]_vars

\* ---------------------------------------------------------------------
\* Match records (C18)

\* what the locations hold, in root order and then in probe order
Located(payload) ==
    LET roots == Roots(payload)
        inOrder == <<roots.payload, roots.event, roots.body>>
    IN  [i \in 1..(3 * Len(MatchLocations)) |->
            _get_nested(inOrder[((i - 1) \div Len(MatchLocations)) + 1],
                        MatchLocations[((i - 1) % Len(MatchLocations)) + 1])]

\* the places that hold a non-empty list
HoldNonEmptyList(located) ==
    {i \in DOMAIN located : located[i].t = "list" /\ located[i].l # <<>>}

\* C18: the match records are those of the first location, in root order
\* (payload, event, decoded body) and then in probe order, that holds a
\* non-empty list; when no location holds one, there are no match records
\* and no error
C18_FirstNonEmptyList ==
    call.fn = "_coerce_matches" =>
        LET located == Located(call.payload)
            holding == HoldNonEmptyList(located)
        IN  /\ ret.exc = "none"
            /\ ret.val = IF holding = {} THEN <<>>
                         ELSE LET first == CHOOSE i \in holding :
                                               \A j \in holding : i <= j
                              IN  dict_items(located[first].l)

\* ---------------------------------------------------------------------
\* String-encoded body (C19)

\* the body of the event of a payload, absent when there is none
BodyOf(payload) == dict_get(event_dict(payload), K_body)

\* the payload with the body of its event replaced
WithBody(payload, body) ==
    PyDict([payload.d EXCEPT ![K_event] = PyDict([@.d EXCEPT ![K_body] = body])])

\* the payload whose event has no body
WithoutBody(payload) ==
    LET event == payload.d[K_event].d
    IN  PyDict([payload.d EXCEPT ![K_event] =
                   PyDict([k \in (DOMAIN event) \ {K_body} |-> event[k]])])

\* a text that is no JSON, or the JSON of a value that is no object
NoObjectText(body) ==
    /\ body.t = "str"
    /\ LET parsed == json_loads(body.s)
       IN  parsed.exc # "none" \/ parsed.val.t # "dict"

\* C19: a payload whose event.body is an object D yields the same
\* extraction result (name, count, time window, match records) as the
\* payload whose event.body is the JSON text of D; a body text that is no
\* valid JSON or does not decode to an object does not raise and yields
\* the result of the payload without the body
C19_EncodedBodyAsInline ==
    call.fn = "_extract_axiom_alert_fields" =>
        LET body == BodyOf(call.payload)
        IN  /\ ret.exc = "none"
            /\ body.t = "dict" =>
                   ret.val = _extract_axiom_alert_fields(
                                 WithBody(call.payload, PyStr(json_dumps(body))))
            /\ NoObjectText(body) =>
                   ret.val = _extract_axiom_alert_fields(WithoutBody(call.payload))

\* a name found only inside a body given as JSON text is extracted
C19_Witness ==
    /\ call.fn = "_extract_axiom_alert_fields"
    /\ BodyOf(call.payload).t = "str"
    /\ ~NoObjectText(BodyOf(call.payload))
    /\ LET roots == Roots(call.payload)
       IN  /\ \A i \in DOMAIN NameAliases :
                  NameAliases[i].root # "body" =>
                      Candidates(roots, NameAliases)[i] = PyNone
           /\ \E i \in DOMAIN NameAliases :
                  Candidates(roots, NameAliases)[i] = PyStr(V_A)
    /\ ret.val.name = V_A

\* ---------------------------------------------------------------------
\* First non-empty candidate (C17)

\* the first candidate that is neither absent nor the empty string, absent
\* when there is none
FirstNonEmpty(candidates) ==
    LET holding == {i \in DOMAIN candidates : NotEmpty(candidates[i])}
    IN  IF holding = {} THEN PyNone
        ELSE candidates[CHOOSE i \in holding : \A j \in holding : i <= j]

\* the first non-empty candidate of each field of the payload of the call
Chosen ==
    LET roots == Roots(call.payload)
    IN  [name |-> FirstNonEmpty(Candidates(roots, NameAliases)),
         matched_count |-> FirstNonEmpty(Candidates(roots, MatchedCountAliases)),
         ts_start |-> FirstNonEmpty(Candidates(roots, StartAliases)),
         ts_end |-> FirstNonEmpty(Candidates(roots, EndAliases))]

\* the text a name or a bound of the window is returned as
AsText(v) == IF FalsyValue(v) THEN <<>> ELSE str_value(v)

\* the count a candidate stands for: the count entry of an object, else
\* the candidate itself
AsCount(v) == IF v.t = "dict" THEN dict_get(v, K_count) ELSE v

\* C17 as stated: each of the monitor name, the matched count, the window
\* start and the window end is the first candidate that is neither absent
\* nor the empty string, in the order of the aliases (payload, then event,
\* then decoded body); a name and a bound of the window are compared as text
C17_FirstCandidateReturned ==
    call.fn = "_extract_axiom_alert_fields" =>
        /\ Chosen.name # PyNone => ret.val.name = str_value(Chosen.name)
        /\ Chosen.matched_count # PyNone =>
               ret.val.matched_count = Chosen.matched_count
        /\ Chosen.ts_start # PyNone => ret.val.ts_start = str_value(Chosen.ts_start)
        /\ Chosen.ts_end # PyNone => ret.val.ts_end = str_value(Chosen.ts_end)

\* C17 amended: each field is determined by the first candidate that is
\* neither absent nor the empty string, in the order of the aliases
\* (payload, then event, then decoded body), and by no later candidate: the
\* name and the bounds of the window are its text, the empty text when it
\* is absent or falsy; the matched count is the candidate, or its count
\* entry when the candidate is an object, and when that gives no count and
\* there are match records, the number of match records
C17_FirstCandidateDetermines ==
    call.fn = "_extract_axiom_alert_fields" =>
        /\ ret.exc = "none"
        /\ ret.val.name = AsText(Chosen.name)
        /\ ret.val.ts_start = AsText(Chosen.ts_start)
        /\ ret.val.ts_end = AsText(Chosen.ts_end)
        /\ ret.val.matched_count =
               IF AsCount(Chosen.matched_count) = PyNone /\ ret.val.matches # <<>>
               THEN PyInt(Len(ret.val.matches))
               ELSE AsCount(Chosen.matched_count)

\* two candidates of the name hold different non-empty values, one of
\* them in a root of lower priority, and the first one is returned
C17_Witness ==
    /\ call.fn = "_extract_axiom_alert_fields"
    /\ LET candidates == Candidates(Roots(call.payload), NameAliases)
       IN  \E i, j \in DOMAIN candidates :
               /\ i < j
               /\ NameAliases[i].root # NameAliases[j].root
               /\ \A k \in 1..(i - 1) : ~NotEmpty(candidates[k])
               /\ candidates[i] = PyStr(V_B)
               /\ candidates[j] = PyStr(V_A)
    /\ ret.val.name = V_B

----------------------------------------------------------------------------
(* Loading and validation of routes.yml *)

LIST_OPS == {<<"contains_any">>, <<"in">>, <<"prefix_in">>}

RuleOpNames == {<<"eq">>, <<"contains">>, <<"contains_any">>, <<"regex">>, <<"in">>, <<"prefix_in">>}

\* the value under a key of a rule that the schema reads: the match mapping
\* when the rule has one, else the rule itself
rule_body(rule) == IF rule.match.t = "dict" THEN rule.match ELSE rule

\* the schema of the document: drop is a list of rules, profiles maps names
\* to {p1: rules, runbook: lines}, services maps names to {profiles: names,
\* runbook: lines}, defaults is a mapping; a rule is a mapping with an op
\* of the rule language, its fields on the rule or under match
schema_rule_errors(rules) ==
    {[kind |-> "schema", name |-> <<"rule">>] : i \in
        {j \in 1..Len(rules) :
            \/ rules[j].t # "dict"
            \/ rules[j].match.t \notin {"absent", "dict"}
            \/ rule_body(rules[j]).op.t # "str"
            \/ rule_body(rules[j]).op.s \notin RuleOpNames}}

schema_errors(config) ==
    (IF config.drop.t \notin {"absent", "list"} THEN {[kind |-> "schema", name |-> <<"drop">>]}
     ELSE IF config.drop.t = "list" THEN schema_rule_errors(config.drop.l) ELSE {})
    \cup (IF config.profiles.t \notin {"absent", "dict"}
          THEN {[kind |-> "schema", name |-> <<"profiles">>]}
          ELSE UNION {IF config.profiles.d[n].t # "dict"
                         \/ config.profiles.d[n].p1.t \notin {"absent", "list"}
                         \/ config.profiles.d[n].runbook.t \notin {"absent", "list"}
                      THEN {[kind |-> "schema", name |-> n]}
                      ELSE IF config.profiles.d[n].p1.t = "list"
                      THEN schema_rule_errors(config.profiles.d[n].p1.l)
                      ELSE {} : n \in DOMAIN config.profiles.d})
    \cup (IF config.services.t \notin {"absent", "dict"}
          THEN {[kind |-> "schema", name |-> <<"services">>]}
          ELSE {[kind |-> "schema", name |-> n] : n \in
                   {m \in DOMAIN config.services.d :
                       \/ config.services.d[m].t # "dict"
                       \/ config.services.d[m].runbook.t \notin {"absent", "list"}
                       \/ config.services.d[m].profiles.t \notin {"absent", "list"}
                       \/ /\ config.services.d[m].profiles.t = "list"
                          /\ \E p \in Elems(config.services.d[m].profiles.l) :
                                 p.t # "str"}})
    \cup (IF config.defaults.t \notin {"absent", "dict"}
             \/ config.defaults.runbook.t \notin {"absent", "list"}
          THEN {[kind |-> "schema", name |-> <<"defaults">>]} ELSE {})

\* _iter_runbooks(config): the lines of every runbook of the document
_iter_runbooks(config) ==
    (IF config.defaults.t = "dict" /\ config.defaults.runbook.t = "list"
     THEN Elems(config.defaults.runbook.l) ELSE {})
    \cup (IF config.profiles.t = "dict"
          THEN UNION {IF config.profiles.d[n].t = "dict"
                         /\ config.profiles.d[n].runbook.t = "list"
                      THEN Elems(config.profiles.d[n].runbook.l) ELSE {} :
                          n \in DOMAIN config.profiles.d}
          ELSE {})
    \cup (IF config.services.t = "dict"
          THEN UNION {IF config.services.d[n].t = "dict"
                         /\ config.services.d[n].runbook.t = "list"
                      THEN Elems(config.services.d[n].runbook.l) ELSE {} :
                          n \in DOMAIN config.services.d}
          ELSE {})

\* name and name not in names, for the names of a section
Dangling(name, names) ==
    /\ ~Falsy(Get(name))
    /\ ~(name.t = "str" /\ name.s \in names)

\* the checks of default_group and default_topic
default_reference_errors(config) ==
    (IF Dangling(config.default_group, DOMAIN config.groups)
     THEN {[kind |-> "default_group", name |-> Str(config.default_group)]} ELSE {})
    \cup (IF Dangling(config.default_topic, DOMAIN config.topics)
          THEN {[kind |-> "default_topic", name |-> Str(config.default_topic)]} ELSE {})

\* the loop over the routes
route_reference_errors(config) ==
    {[kind |-> "route group", name |-> Str(config.routes[i].group)] : i \in
        {j \in 1..Len(config.routes) :
            Dangling(config.routes[j].group, DOMAIN config.groups)}}
    \cup {[kind |-> "route topic", name |-> Str(config.routes[i].topic)] : i \in
        {j \in 1..Len(config.routes) :
            Dangling(config.routes[j].topic, DOMAIN config.topics)}}

\* the loop over the services and the profiles each of them names
profile_reference_errors(config) ==
    IF config.profiles.t \in {"absent", "dict"} /\ config.services.t = "dict"
    THEN {[kind |-> "service profile", name |-> Str(p)] : p \in
             UNION {IF config.services.d[n].t = "dict"
                       /\ config.services.d[n].profiles.t = "list"
                    THEN {q \in Elems(config.services.d[n].profiles.l) :
                             ~(q.t = "str" /\ q.s \in DOMAIN config.profiles.d)}
                    ELSE {} : n \in DOMAIN config.services.d}}
    ELSE {}

\* _validate_references that does not look at the routes
validate_references_skips_routes(config) ==
    default_reference_errors(config) \cup profile_reference_errors(config)

\* _validate_references(config)
_validate_references(config) ==
    default_reference_errors(config) \cup route_reference_errors(config)
        \cup profile_reference_errors(config)

\* the loop of _validate_list_ops over the rules of one list: only the
\* mapping under "match" is read
list_op_errors(rules) ==
    {[kind |-> "list op", name |-> rules[i].match.op.s] : i \in
        {j \in 1..Len(rules) :
            /\ rules[j].t = "dict"
            /\ rules[j].match.t = "dict"
            /\ rules[j].match.op.t = "str"
            /\ rules[j].match.op.s \in LIST_OPS
            /\ rules[j].match.value.t # "list"}}

\* _validate_list_ops(config)
_validate_list_ops(config) ==
    (IF config.drop.t = "list" THEN list_op_errors(config.drop.l) ELSE {})
    \cup (IF config.profiles.t = "dict"
          THEN UNION {IF config.profiles.d[n].t = "dict"
                         /\ config.profiles.d[n].p1.t = "list"
                      THEN list_op_errors(config.profiles.d[n].p1.l) ELSE {} :
                          n \in DOMAIN config.profiles.d}
          ELSE {})

\* validate_routes_config(config, schema_path): the errors it raises with
validate_routes_config(config) ==
    IF schema_errors(config) # {} THEN schema_errors(config)
    ELSE UNION {_validate_placeholders(<<line>>) : line \in _iter_runbooks(config)}
             \cup _validate_references(config)
             \cup _validate_list_ops(config)

\* _load_routes(): {} when routes.yml is missing, else the validated document
_load_routes(file) ==
    IF ~file.exists THEN Returns(EmptyConfig)
    ELSE IF validate_routes_config(file.data) # {} THEN Raises("ValueError")
    ELSE Returns(file.data)

----------------------------------------------------------------------------
(* Load specification: _load_routes at import, then requests served with
   the configuration it bound *)

R_in_scalar == Rule(NoMatchKey, PyStr(F_status), PyStr(<<"in">>), PyStr(S_404))
R_match_in_scalar ==
    Rule(MatchDict(PyStr(F_status), PyStr(<<"in">>), PyStr(S_404)), Absent, Absent, Absent)
R_match_prefix_in ==
    Rule(MatchDict(PyStr(F_status), PyStr(<<"prefix_in">>), PyList(<<PyStr(<<"5">>)>>)),
         Absent, Absent, Absent)
R_match_contains_any_none ==
    Rule(MatchDict(PyStr(F_message), PyStr(<<"contains_any">>), Absent), Absent, Absent, Absent)
R_contains_any_scalar ==
    Rule(NoMatchKey, PyStr(F_message), PyStr(<<"contains_any">>), PyStr(<<"a">>))
R_gt == Rule(NoMatchKey, PyStr(F_status), PyStr(<<"gt">>), PyStr(S_404))

LoadRulePool ==
    {R_status_404, R_status_in, R_message_a, R_in_scalar, R_match_in_scalar,
     R_match_prefix_in, R_match_contains_any_none, R_gt, NotARule}

LoadRoutePool ==
    { Route(MatchBlock(PyStr(S_api), Absent, Absent, Absent), PyStr(S_g1), PyStr(S_t1)),
      Route(MatchBlock(PyStr(S_api), Absent, Absent, Absent), PyStr(S_ghost), PyStr(S_t1)),
      Route(NoMatchBlock, Absent, PyStr(S_ghost)),
      Route(MatchBlock(Absent, PyStr(<<"b">>), Absent, Absent), PyStr(<<>>), Absent) }

\* documents that differ in what they refer to
ReferenceDocuments ==
    {[BaseConfig EXCEPT
        !.keys = @ \cup {"routes"}
                   \cup (IF dg.t = "absent" THEN {} ELSE {"default_group"})
                   \cup (IF dt.t = "absent" THEN {} ELSE {"default_topic"}),
        !.routes = rs, !.default_group = dg, !.default_topic = dt,
        !.profiles = [t |-> "dict", d |-> [n \in {P_sev_a} |-> Profile(Absent, Absent)]],
        !.services = [t |-> "dict", d |-> [n \in {S_A} |-> Service(ps, Absent)]]] :
        rs \in SeqsUpTo(LoadRoutePool, MaxRoutes),
        dg \in {Absent, PyStr(S_g0), PyStr(S_ghost)},
        dt \in {Absent, PyStr(S_t0), PyStr(S_ghost)},
        ps \in {Absent, PyList(<<PyStr(P_sev_a)>>),
                PyList(<<PyStr(P_sev_a), PyStr(P_ghost)>>)}}

\* documents that differ in their drop rules and p1 rules
RuleDocuments ==
    {[BaseConfig EXCEPT
        !.drop = d,
        !.profiles = [t |-> "dict", d |-> [n \in {P_sev_a} |-> Profile(p1, Absent)]]] :
        d \in {Absent, PyStr(<<"a">>)}
                 \cup {PyList(l) : l \in SeqsUpTo(LoadRulePool, MaxRules)},
        p1 \in {Absent, PyList(<<R_status_5xx>>), PyList(<<R_contains_any_scalar>>),
                PyList(<<R_match_in_scalar>>)}}

\* documents that differ in their runbooks and in the shape of sections
RunbookDocuments ==
    {[BaseConfig EXCEPT
        !.defaults = df,
        !.profiles = pf,
        !.services = [t |-> "dict", d |-> [n \in {S_A} |-> Service(Absent, sr)]]] :
        df \in {[t |-> "absent", runbook |-> Absent],
                [t |-> "dict", runbook |-> PyList(<<Step_default>>)],
                [t |-> "dict", runbook |-> PyList(<<Step_pod>>)],
                [t |-> "dict", runbook |-> PyStr(<<"a">>)]},
        pf \in {[t |-> "dict", d |-> [n \in {P_sev_a} |->
                    Profile(Absent, PyList(<<Step_container>>))]],
                [t |-> "dict", d |-> [n \in {P_sev_a} |->
                    Profile(Absent, PyList(<<Step_lone_brace>>))]],
                [t |-> "str", d |-> EmptyDict]},
        sr \in {Absent, PyList(<<Step_service>>), PyList(<<Step_bad_conversion>>)}}

\* routes.yml: missing, or holding a document
RoutesFiles ==
    {[exists |-> FALSE, data |-> EmptyConfig]}
        \cup {[exists |-> TRUE, data |-> d] :
                 d \in ReferenceDocuments \cup RuleDocuments \cup RunbookDocuments}

InitLoad ==
    /\ _routes = EmptyConfig
    /\ settings = DefaultSettings
    /\ call = NoCall
    /\ ret = Returns(FALSE)
    /\ telegram = <<>>
    /\ axiom = <<>>
    /\ stop_event = FALSE
    /\ auto_task = NoTask

\* _routes = _load_routes(): an exception leaves the module unimported
Call_load_routes ==
    /\ call = NoCall
    /\ \E file \in RoutesFiles :
        /\ call' = [fn |-> "_load_routes", file |-> file]
        /\ ret' = _load_routes(file)
        /\ _routes' = IF _load_routes(file).exc = "none" THEN file.data ELSE _routes
        /\ UNCHANGED <<settings, telegram, axiom, stop_event, auto_task>>

\* a request served after the import: the drop rules are evaluated
Serve_should_drop ==
    /\ call.fn = "_load_routes"
    /\ ret.exc = "none"
    /\ \E context \in HandlerContexts :
        /\ call' = [fn |-> "_should_drop", context |-> context]
        /\ ret' = _should_drop(context)
        /\ UNCHANGED <<settings, _routes, telegram, axiom, stop_event, auto_task>>

\* a request served after the import: the p1 rules are evaluated
Serve_is_p1 ==
    /\ call.fn = "_load_routes"
    /\ ret.exc = "none"
    /\ \E context \in HandlerContexts :
        /\ call' = [fn |-> "_is_p1", context |-> context]
        /\ ret' = _is_p1(<<P_sev_a>>, context)
        /\ UNCHANGED <<settings, _routes, telegram, axiom, stop_event, auto_task>>

NextLoad == Call_load_routes \/ Serve_should_drop \/ Serve_is_p1

SpecLoad == InitLoad /\ [][NextLoad]_vars

\* ---------------------------------------------------------------------
\* List operators (C21)

\* the mapping the matcher reads the rule from: under match, or the rule
MatcherReads(rule) == IF rule.match.t = "absent" THEN rule ELSE rule.match

\* a rule with op contains_any, in or prefix_in whose value is no list
ScalarListOp(rule) ==
    /\ rule.t = "dict"
    /\ MatcherReads(rule).t = "dict"
    /\ MatcherReads(rule).op.t = "str"
    /\ MatcherReads(rule).op.s \in {<<"contains_any">>, <<"in">>, <<"prefix_in">>}
    /\ MatcherReads(rule).value.t # "list"

\* the drop rules and the p1 rules of the profiles of a document
RulesOf(config) ==
    (IF config.drop.t = "list" THEN Elems(config.drop.l) ELSE {})
    \cup (IF config.profiles.t = "dict"
          THEN UNION {IF config.profiles.d[n].t = "dict"
                         /\ config.profiles.d[n].p1.t = "list"
                      THEN Elems(config.profiles.d[n].p1.l) ELSE {} :
                          n \in DOMAIN config.profiles.d}
          ELSE {})

\* C21: loading fails whenever a drop rule or a p1 rule uses contains_any,
\* in or prefix_in with a value that is no list, with its fields on the
\* rule or under match; no such document is bound to _routes or served
C21_ScalarListOpNeverLoads ==
    /\ (call.fn = "_load_routes" /\ call.file.exists
            /\ \E rule \in RulesOf(call.file.data) : ScalarListOp(rule))
           => ret.exc = "ValueError"
    /\ \A rule \in RulesOf(_routes) : ~ScalarListOp(rule)

\* ---------------------------------------------------------------------
\* References (C22)

\* a name given by the document: a str that is not empty
Named(v) == v.t = "str" /\ v.s # <<>>

\* every group, topic and profile the document names exists
ReferencesResolve(config) ==
    /\ Named(config.default_group) => config.default_group.s \in DOMAIN config.groups
    /\ Named(config.default_topic) => config.default_topic.s \in DOMAIN config.topics
    /\ \A i \in 1..Len(config.routes) :
           /\ Named(config.routes[i].group) =>
                  config.routes[i].group.s \in DOMAIN config.groups
           /\ Named(config.routes[i].topic) =>
                  config.routes[i].topic.s \in DOMAIN config.topics
    /\ config.services.t = "dict" =>
           \A n \in DOMAIN config.services.d :
               (config.services.d[n].t = "dict"
                   /\ config.services.d[n].profiles.t = "list") =>
                   \A p \in Elems(config.services.d[n].profiles.l) :
                       Named(p) => /\ config.profiles.t = "dict"
                                   /\ p.s \in DOMAIN config.profiles.d

----------------------------------------------------------------------------
(* The webhook handler: helpers of axiom_webhook *)

\* the single character U+2014
EmDash == "<em dash>"

\* s.strip()
RECURSIVE lstrip(_)
lstrip(s) == IF s # <<>> /\ s[1] = " " THEN lstrip(Tail(s)) ELSE s

RECURSIVE rstrip(_)
rstrip(s) ==
    IF s # <<>> /\ s[Len(s)] = " " THEN rstrip(SubSeq(s, 1, Len(s) - 1)) ELSE s

strip(s) == rstrip(lstrip(s))

\* s.split(sep, 1)[0] for a sep that occurs in s
before(s, sep) == SubSeq(s, 1, find(s, sep) - 1)

\* _coerce_bool that ignores the configured value
coerce_bool_fallback_only(value, fallback) == fallback

\* _coerce_bool(value, fallback)
_coerce_bool(value, fallback) ==
    IF value.t = "bool" THEN value.n = 1
    ELSE IF value.t = "str"
    THEN LET normalized == lower(strip(value.s))
         IN  IF normalized \in {<<"t", "r", "u", "e">>, <<"1">>, <<"y", "e", "s">>}
             THEN TRUE
             ELSE IF normalized \in {<<"f", "a", "l", "s", "e">>, <<"0">>, <<"n", "o">>}
             THEN FALSE
             ELSE fallback
    ELSE fallback

\* _config_defaults().get(name)
defaults_get(name) ==
    IF ~NoRoutes /\ _routes.defaults.t = "dict" /\ name \in DOMAIN _routes.defaults
    THEN Get(_routes.defaults[name])
    ELSE PyNone

\* _guess_service_from_monitor(monitor_name): the guess, or <<>> for None
_guess_service_from_monitor(monitor_name) ==
    IF In(<<EmDash>>, monitor_name) THEN strip(before(monitor_name, <<EmDash>>))
    ELSE IF In(<<" ", "-", " ">>, monitor_name)
    THEN strip(before(monitor_name, <<" ", "-", " ">>))
    ELSE <<>>

\* _normalize_monitor_name(name)
_normalize_monitor_name(name) ==
    IF ~In(StatusSeparator, name) THEN name
    ELSE status_at(name, find(name, StatusSeparator)).name

\* _normalize_service_name(service)
_normalize_service_name(service) ==
    LET cleaned == strip(_normalize_monitor_name(service))
    IN  IF In(<<EmDash>>, cleaned) THEN strip(before(cleaned, <<EmDash>>))
        ELSE cleaned

K_data == <<"d", "a", "t", "a">>
K_message == <<"m", "e", "s", "s", "a", "g", "e">>
K_msg == <<"m", "s", "g">>
K_log == <<"l", "o", "g">>
K__raw == <<"_", "r", "a", "w">>
K_status == <<"s", "t", "a", "t", "u", "s">>
K_status_code == <<"s", "t", "a", "t", "u", "s", "_", "c", "o", "d", "e">>
K_code == <<"c", "o", "d", "e">>
K_user_agent == <<"u", "s", "e", "r", "_", "a", "g", "e", "n", "t">>
K_userAgent == <<"u", "s", "e", "r", "A", "g", "e", "n", "t">>
K_ua == <<"u", "a">>
K_path == <<"p", "a", "t", "h">>
K_url == <<"u", "r", "l">>
K_request_path == <<"r", "e", "q", "u", "e", "s", "t", "_", "p", "a", "t", "h">>
K_requestPath == <<"r", "e", "q", "u", "e", "s", "t", "P", "a", "t", "h">>

\* the for ... break loops: str of the first value under keys that is kept
RECURSIVE first_kept(_, _, _)
first_kept(data, keys, truthy) ==
    IF keys = <<>> THEN <<>>
    ELSE LET value == dict_get(data, keys[1])
         IN  IF (IF truthy THEN ~FalsyValue(value) ELSE value # PyNone)
             THEN <<str_value(value)>>
             ELSE first_kept(data, Tail(keys), truthy)

NoFields ==
    [servers |-> {}, services |-> {}, messages |-> <<>>, statuses |-> <<>>,
     user_agents |-> <<>>, paths |-> <<>>]

\* the body of the loop of _extract_match_fields and _extract_fields_from_rows
with_fields(acc, data) ==
    [servers |-> acc.servers \cup
        (IF FalsyValue(dict_get(data, K_host)) THEN {}
         ELSE {str_value(dict_get(data, K_host))}),
     services |-> acc.services \cup
        (IF FalsyValue(dict_get(data, K_service)) THEN {}
         ELSE {str_value(dict_get(data, K_service))}),
     messages |-> acc.messages
        \o first_kept(data, <<K_message, K_msg, K_log, K__raw>>, TRUE),
     statuses |-> acc.statuses
        \o first_kept(data, <<K_status, K_status_code, K_code>>, FALSE),
     user_agents |-> acc.user_agents
        \o first_kept(data, <<K_user_agent, K_userAgent, K_ua>>, TRUE),
     paths |-> acc.paths
        \o first_kept(data, <<K_path, K_url, K_request_path, K_requestPath>>, TRUE)]

\* _extract_match_fields(matches) for matches that are dicts
RECURSIVE extract_match_fields_from(_, _)
extract_match_fields_from(matches, acc) ==
    IF matches = <<>> THEN acc
    ELSE LET match == matches[1]
             data == IF K_data \in DOMAIN match.d THEN match.d[K_data] ELSE match
         IN  extract_match_fields_from(
                 Tail(matches),
                 IF data.t = "dict" THEN with_fields(acc, data) ELSE acc)

_extract_match_fields(matches) == extract_match_fields_from(matches, NoFields)

\* _extract_fields_from_rows(rows) for rows that are dicts
RECURSIVE extract_fields_from_rows_from(_, _)
extract_fields_from_rows_from(rows, acc) ==
    IF rows = <<>> THEN acc
    ELSE extract_fields_from_rows_from(Tail(rows), with_fields(acc, rows[1]))

_extract_fields_from_rows(rows) == extract_fields_from_rows_from(rows, NoFields)

\* _format_host_service(servers, services): (host, service, display)
_format_host_service(servers, services) ==
    LET host == IF servers # {} THEN sorted(servers)[1] ELSE <<>>
        service == IF services # {} THEN sorted(services)[1] ELSE <<>>
        display == IF host # <<>> /\ service # <<>> THEN host \o <<":">> \o service
                   ELSE IF service # <<>> THEN service
                   ELSE host
    IN  IF host = <<>> /\ service = <<>>
        THEN [host |-> <<>>, service |-> <<>>, display |-> <<>>]
        ELSE [host |-> host, service |-> service,
              display |-> IF Cardinality(servers) > 1 \/ Cardinality(services) > 1
                          THEN display \o <<" ", "(", "m", "u", "l", "t", "i", "p", "l", "e", ")">>
                          ELSE display]

----------------------------------------------------------------------------
(* The enrichment query: _query_axiom_rows *)

K_tables == <<"t", "a", "b", "l", "e", "s">>
K_fields == <<"f", "i", "e", "l", "d", "s">>
K_columns == <<"c", "o", "l", "u", "m", "n", "s">>

\* the elements v[0], v[1], ... of a list or a str
Items(v) == IF v.t = "str" THEN [i \in 1..Len(v.s) |-> PyStr(<<v.s[i]>>)] ELSE v.l

\* len(v) of a list, a str or a dict
PyLen(v) ==
    IF v.t = "dict" THEN Cardinality(DOMAIN v.d)
    ELSE IF v.t = "str" THEN Len(v.s) ELSE Len(v.l)

\* row row_index of the loop of _rows_from_tabular
row_at(names, columns, row_index) ==
    LET cols == {c \in 1..Len(names) :
                    /\ c <= Len(columns)
                    /\ row_index <= PyLen(columns[c])
                    /\ ~FalsyValue(names[c])}
    IN  PyDict([k \in {names[c].s : c \in cols} |->
            LET last == CHOOSE c \in cols :
                            /\ names[c].s = k
                            /\ \A c2 \in cols : names[c2].s = k => c2 <= c
            IN  Items(columns[last])[row_index]])

\* _rows_from_tabular(payload)
_rows_from_tabular(payload) ==
    LET tables == dict_get(payload, K_tables)
    IN  IF FalsyValue(tables) THEN Returns(<<>>)
        ELSE IF tables.t \in {"int", "bool"} THEN Raises("TypeError")
        ELSE IF tables.t = "dict" THEN Raises("KeyError")
        ELSE LET table == Items(tables)[1]
             IN  IF table.t # "dict" THEN Raises("AttributeError")
                 ELSE LET fields == IF K_fields \in DOMAIN table.d
                                    THEN table.d[K_fields] ELSE PyList(<<>>)
                          columns == IF K_columns \in DOMAIN table.d
                                     THEN table.d[K_columns] ELSE PyList(<<>>)
                      IN  IF fields.t \notin {"list", "str", "dict"}
                          THEN Raises("TypeError")
                          ELSE IF fields.t # "list" /\ ~FalsyValue(fields)
                          THEN Raises("AttributeError")
                          ELSE IF fields.t = "list"
                                  /\ \E i \in 1..Len(fields.l) : fields.l[i].t # "dict"
                          THEN Raises("AttributeError")
                          ELSE IF FalsyValue(fields) \/ FalsyValue(columns)
                          THEN Returns(<<>>)
                          ELSE IF columns.t # "list" THEN Raises("TypeError")
                          ELSE IF \E c \in 1..Len(columns.l) :
                                     /\ (c = 1 \/ c <= Len(fields.l))
                                     /\ columns.l[c].t \notin {"list", "str"}
                          THEN Raises("TypeError")
                          ELSE IF \E c \in 1..Len(fields.l) :
                                     /\ ~FalsyValue(dict_get(fields.l[c], K_name))
                                     /\ dict_get(fields.l[c], K_name).t # "str"
                          THEN Raises("TypeError")
                          ELSE LET names == [c \in 1..Len(fields.l) |->
                                                dict_get(fields.l[c], K_name)]
                               IN  Returns([r \in 1..PyLen(columns.l[1]) |->
                                               row_at(names, columns.l, r)])

\* the matches branch of _rows_from_query_payload
RECURSIVE data_of_matches(_)
data_of_matches(matches) ==
    IF matches = <<>> THEN <<>>
    ELSE (IF matches[1].t = "dict" /\ dict_get(matches[1], K_data).t = "dict"
          THEN <<dict_get(matches[1], K_data)>> ELSE <<>>)
             \o data_of_matches(Tail(matches))

\* _rows_from_query_payload(payload)
_rows_from_query_payload(payload) ==
    The({IF rows.exc # "none" \/ rows.val # <<>> THEN rows
         ELSE IF dict_get(payload, K_matches).t = "list"
         THEN Returns(data_of_matches(dict_get(payload, K_matches).l))
         ELSE Returns(<<>>) :
             rows \in {_rows_from_tabular(payload)}})

\* what the query API does with the request: no answer in time, an error
\* status, or a 200 answer with a body
QueryTimeout == [kind |-> "timeout", body |-> <<>>]
QueryErrorStatus == [kind |-> "error status", body |-> <<>>]
QueryAnswer(body) == [kind |-> "answer", body |-> body]

\* the lines of _query_axiom_rows from client.post on, for the reply
\* the API gives
rows_of_reply(reply) ==
    IF reply.kind \in {"timeout", "error status"} THEN Returns(<<>>)  \* httpx.HTTPError
    ELSE The({IF payload.exc # "none" THEN Returns(<<>>)              \* ValueError
              ELSE IF payload.val.t # "dict" THEN Returns(<<>>)
              ELSE _rows_from_query_payload(payload.val) :
                  payload \in {json_loads(reply.body)}})

\* rows_of_reply with an except clause that catches every Exception
rows_of_reply_catch_all(reply) ==
    IF rows_of_reply(reply).exc # "none" THEN Returns(<<>>) ELSE rows_of_reply(reply)

----------------------------------------------------------------------------
(* The handlers: axiom_webhook and local_alert.  A handler runs from one
   await to the next in one step; call holds its position (pc), its local
   variables and the steps it has taken so far. *)

F_title == <<"title">>
F_user_agent == <<"user_agent">>
F_path == <<"path">>
F_host == <<"host">>
F_service == <<"service">>

\* the response {"ok": True}
OkResponse == Returns([ok |-> TRUE])

\* the response of a raised HTTPException(status_code=...)
HTTPException(status_code) ==
    [exc |-> "HTTPException", val |-> FALSE, status_code |-> status_code]

\* lines 1084-1134: the local variables of axiom_webhook before the
\* enrichment
webhook_locals(payload) ==
    The({[monitor_name |-> f.name,
          status |-> st.status,
          normalized_name |-> st.name,
          matched_count |-> f.matched_count,
          ts_start |-> f.ts_start,
          ts_end |-> f.ts_end,
          route_monitor |-> route_monitor,
          fields |-> [m EXCEPT !.services =
                         IF m.services = {} /\ _guess_service_from_monitor(route_monitor) # <<>>
                         THEN {_guess_service_from_monitor(route_monitor)}
                         ELSE m.services]] :
              f \in {_extract_axiom_alert_fields(payload)},
              st \in {_extract_alert_status(_extract_axiom_alert_fields(payload).name)},
              route_monitor \in
                  {IF _extract_alert_status(
                          _extract_axiom_alert_fields(payload).name).name # <<>>
                   THEN _extract_alert_status(
                            _extract_axiom_alert_fields(payload).name).name
                   ELSE _normalize_monitor_name(
                            _extract_axiom_alert_fields(payload).name)},
              m \in {_extract_match_fields(_extract_axiom_alert_fields(payload).matches)}})

\* include_resolved of axiom_webhook
include_resolved ==
    _coerce_bool(defaults_get("include_resolved"), settings.alertbot_include_resolved)

service_hint(l) ==
    IF l.fields.services # {} THEN sorted(l.fields.services)[1] ELSE <<>>

host_hint(l) ==
    IF l.fields.servers # {} THEN sorted(l.fields.servers)[1] ELSE <<>>

\* the condition of the enrichment, line 1135
wants_rows(l) ==
    /\ l.fields.messages = <<>>
    /\ settings.axiom_mgmt_token # <<>>
    /\ settings.axiom_dataset # <<>>
    /\ service_hint(l) # <<>>

\* lines 1147-1160: the fields of the rows are added to those of the matches
with_rows(fields, rows) ==
    IF rows = <<>> THEN fields
    ELSE The({[servers |-> fields.servers \cup r.servers,
               services |-> fields.services \cup r.services,
               messages |-> fields.messages \o r.messages,
               statuses |-> fields.statuses \o r.statuses,
               user_agents |-> fields.user_agents \o r.user_agents,
               paths |-> fields.paths \o r.paths] :
                  r \in {_extract_fields_from_rows(rows)}})

\* s or "" of a value _most_common returns
or_empty(v) == IF v = PyNone THEN <<>> ELSE v.s

\* lines 1164-1184: the summary of the fields and the rule context
webhook_summary(l, fields) ==
    The({[servers |-> fields.servers,
          services |-> services,
          top_error |-> top_error,
          sample_messages |->
              _sample_messages(fields.messages,
                               _coerce_int(defaults_get("sample_count"), 2)),
          host_service |-> hs,
          context |->
              [k \in {F_title, F_message, F_status, F_user_agent, F_path,
                      F_host, F_service} |->
                  PyStr(CASE k = F_title -> l.route_monitor
                          [] k = F_message -> or_empty(top_error)
                          [] k = F_status -> or_empty(_most_common(fields.statuses))
                          [] k = F_user_agent -> or_empty(_most_common(fields.user_agents))
                          [] k = F_path -> or_empty(_most_common(fields.paths))
                          [] k = F_host -> hs.host
                          [] OTHER -> hs.service)]] :
              services \in {{_normalize_service_name(s) : s \in fields.services \ {<<>>}}},
              top_error \in {IF _coerce_bool(defaults_get("top_error"), TRUE)
                             THEN _most_common(fields.messages) ELSE PyNone},
              hs \in {_format_host_service(
                          fields.servers,
                          {_normalize_service_name(s) : s \in fields.services \ {<<>>}})}})

\* lines 1189-1220: the message handed to send_message and its destination;
\* the text is held as the arguments of format_axiom_alert
webhook_message(l, s, is_p1, runbook) ==
    [target |-> resolve_target(s.services, s.servers, l.route_monitor),
     text |-> [name |-> IF l.route_monitor # <<>> THEN l.route_monitor
                        ELSE l.normalized_name,
               status |-> l.status,
               count |-> l.matched_count,
               ts_start |-> l.ts_start,
               ts_end |-> l.ts_end,
               servers |-> s.servers,
               services |-> s.services,
               sample_messages |-> s.sample_messages,
               top_error |-> s.top_error,
               tag |-> IF is_p1 THEN _config_tags.user_impact
                       ELSE _config_tags.service_errors,
               host_service |-> s.host_service.display,
               runbook |-> runbook]]

NoMessage == [target |-> [chat_id |-> <<>>, topic_id |-> PyNone], text |-> <<>>]

\* lines 1164-1220: from the end of the enrichment to the await of
\* send_message
after_rows(l, rows) ==
    The({IF drop.exc # "none"
         THEN [pc |-> "done", ret |-> drop, steps |-> <<"drop">>,
               context |-> s.context, message |-> NoMessage]
         ELSE IF drop.val
         THEN [pc |-> "done", ret |-> OkResponse, steps |-> <<"drop">>,
               context |-> s.context, message |-> NoMessage]
         ELSE The({IF p1.exc # "none"
                   THEN [pc |-> "done", ret |-> p1, steps |-> <<"drop", "p1">>,
                         context |-> s.context, message |-> NoMessage]
                   ELSE IF runbook.exc # "none"
                   THEN [pc |-> "done", ret |-> runbook,
                         steps |-> <<"drop", "p1", "runbook">>,
                         context |-> s.context, message |-> NoMessage]
                   ELSE [pc |-> "send", ret |-> Returns(FALSE),
                         steps |-> <<"drop", "p1", "runbook", "route">>,
                         context |-> s.context,
                         message |-> webhook_message(l, s, p1.val, runbook.val)] :
                       p1 \in {_is_p1(_get_service_profiles(s.services), s.context)},
                       runbook \in
                           {_render_runbook(
                                _resolve_runbook(s.services,
                                                 _get_service_profiles(s.services)),
                                s.host_service.host, s.host_service.service,
                                l.route_monitor)}}) :
             s \in {webhook_summary(l, with_rows(l.fields, rows))},
             drop \in {The({_should_drop(c) :
                               c \in {webhook_summary(l, with_rows(l.fields, rows)).context}})}})

\* what the request carries: the X-Webhook-Secret header and the outcome
\* of request.json()
NotJson == [ok |-> FALSE, payload |-> EmptyPyDict]
Json(payload) == [ok |-> TRUE, payload |-> payload]

NoLocals ==
    [monitor_name |-> <<>>, status |-> PyNone, normalized_name |-> <<>>,
     matched_count |-> PyNone, ts_start |-> <<>>, ts_end |-> <<>>,
     route_monitor |-> <<>>, fields |-> NoFields]

NoReply == [kind |-> "none", body |-> <<>>]

\* the record of a call of axiom_webhook
WebhookCall(header, body, pc, steps, l, context, message) ==
    [fn |-> "axiom_webhook", header |-> header, body |-> body, pc |-> pc,
     steps |-> steps, l |-> l, context |-> context, message |-> message,
     reply |-> NoReply, ok |-> FALSE]

NoContext == <<>>

\* the query of _query_axiom_rows
Query(l) ==
    [dataset |-> settings.axiom_dataset, service |-> service_hint(l),
     host |-> host_hint(l), ts_start |-> l.ts_start, ts_end |-> l.ts_end]

\* the request send_message posts for a message
Posted(message) ==
    [chat_id |-> message.target.chat_id, text |-> message.text,
     parse_mode |-> "HTML",
     message_thread_id |-> IF message.target.topic_id = PyNone THEN Absent
                           ELSE message.target.topic_id]

\* what send_message returns for a message and the outcome at the API
sent(message, outcome) == message.target.chat_id # <<>> /\ outcome = "success"

S_secret == <<"s", "3">>
S_token == <<"x", "a", "a", "t">>
S_logs == <<"l", "o", "g", "s">>
S_h1 == <<"h", "1">>
S_ba == <<"b", "a">>
S_cpu == <<"c", "p", "u">>

N_resolved_api ==
    <<"R", "e", "s", "o", "l", "v", "e", "d", ":", " ", "a", "p", "i", " ", "-", " ",
      "c", "p", "u">>
N_triggered_cpu ==
    <<"T", "r", "i", "g", "g", "e", "r", "e", "d", ":", " ", "c", "p", "u">>
N_api_cpu == <<"a", "p", "i", " ", "-", " ", "c", "p", "u">>

\* match records: with a message, without one, without a service
Match_gateway ==
    PyDict(K_data :> PyDict((K_service :> PyStr(S_api_gateway)) @@ (K_host :> PyStr(S_h1))
                                @@ (K_message :> PyStr(S_ba)) @@ (K_status :> PyInt(404))))
Match_worker == PyDict(K_service :> PyStr(S_worker))
Match_500 == PyDict((K_msg :> PyStr(S_ba)) @@ (K_status_code :> PyStr(S_500)))

WebhookNames == {Absent, PyStr(N_resolved_api), PyStr(N_triggered_cpu), PyStr(N_api_cpu)}

WebhookMatches == {<<>>, <<Match_gateway>>, <<Match_worker>>, <<Match_500, Match_worker>>}

WebhookPayloads ==
    {PyDict([k \in (IF name = Absent THEN {} ELSE {K_name}) \cup {K_matches} |->
                IF k = K_name THEN name ELSE PyList(matches)]) :
        name \in WebhookNames, matches \in WebhookMatches}

\* replies of the query API
Reply_not_json == QueryAnswer(<<"{", "o", "o", "p", "s">>)
Reply_list == QueryAnswer(json_dumps(PyList(<<>>)))
Reply_empty == QueryAnswer(json_dumps(EmptyPyDict))
Reply_table ==
    QueryAnswer(json_dumps(PyDict(K_tables :> PyList(<<
        PyDict((K_fields :> PyList(<<PyDict(K_name :> PyStr(K_message)),
                                    PyDict(K_name :> PyStr(K_status))>>))
               @@ (K_columns :> PyList(<<PyList(<<PyStr(S_ba)>>),
                                         PyList(<<PyStr(S_404)>>)>>)))>>))))
Reply_matches ==
    QueryAnswer(json_dumps(PyDict(K_matches :> PyList(<<
        PyDict(K_data :> PyDict((K_message :> PyStr(S_ba))
                                    @@ (K_service :> PyStr(S_api))))>>))))
Reply_tables_int == QueryAnswer(json_dumps(PyDict(K_tables :> PyInt(5))))
Reply_table_int == QueryAnswer(json_dumps(PyDict(K_tables :> PyList(<<PyInt(5)>>))))

QueryReplies ==
    {QueryTimeout, QueryErrorStatus, Reply_not_json, Reply_list, Reply_empty,
     Reply_table, Reply_matches, Reply_tables_int, Reply_table_int}

WebhookSettings ==
    {[telegram_chat_id |-> S_chat, telegram_topic_id |-> <<>>,
      webhook_secret |-> secret, axiom_mgmt_token |-> token,
      axiom_dataset |-> S_logs, alertbot_include_resolved |-> ir] :
        secret \in {<<>>, S_secret}, token \in {<<>>, S_token}, ir \in BOOLEAN}

Route_api ==
    Route(MatchBlock(PyStr(S_api), Absent, Absent, Absent), PyStr(S_g1), PyStr(S_t1))
Route_cpu ==
    Route(MatchBlock(Absent, Absent, PyStr(S_cpu), Absent), PyStr(S_g2), PyStr(S_t2))

WebhookConfigs ==
    {EmptyConfig} \cup
    {[BaseConfig EXCEPT
        !.keys = @ \cup {"routes", "default_group", "default_topic"},
        !.routes = rs,
        !.default_group = PyStr(S_g0),
        !.default_topic = PyStr(S_t0),
        !.drop = PyList(d),
        !.defaults = [t |-> "dict", runbook |-> PyList(<<Step_default>>),
                      include_resolved |-> ir, top_error |-> Absent,
                      sample_count |-> Absent],
        !.profiles = [t |-> "dict", d |->
            [n \in {P_sev_a} |-> Profile(PyList(<<R_message_a>>), Absent)]],
        !.services = [t |-> "dict", d |->
            [n \in {S_api_gateway} |-> Service(PyList(<<PyStr(P_sev_a)>>), Absent)]]] :
        rs \in {<<>>, <<Route_api>>, <<Route_cpu, Route_api>>},
        d \in {<<>>, <<R_status_404>>, <<R_status_bad_regex>>},
        ir \in {Absent, PyBool(TRUE), PyStr(<<"n", "o">>), PyStr(<<"Y", "e", "s", " ">>)}}

T_unhealthy_api ==
    <<"u", "n", "h", "e", "a", "l", "t", "h", "y", ":", " ", "a", "p", "i">>

LocalTitles == {<<>>, S_worker, T_unhealthy_api}

InitWebhook ==
    /\ _routes \in WebhookConfigs
    /\ settings \in WebhookSettings
    /\ call = NoCall
    /\ ret = Returns(FALSE)
    /\ telegram = <<>>
    /\ axiom = <<>>
    /\ stop_event = FALSE
    /\ auto_task = NoTask

\* axiom_webhook from the request to its first await that is not the body
\* of the request: the enrichment query, or send_message, or the response
axiom_webhook_request ==
    /\ call = NoCall
    /\ \E header \in {<<>>, S_secret},
          body \in {NotJson} \cup {Json(p) : p \in WebhookPayloads} :
        IF settings.webhook_secret # <<>> /\ header # settings.webhook_secret
        THEN /\ call' = WebhookCall(header, body, "done", <<>>, NoLocals,
                                    NoContext, NoMessage)
             /\ ret' = HTTPException(403)
             /\ axiom' = axiom
        ELSE IF ~body.ok
        THEN /\ call' = WebhookCall(header, body, "done", <<>>, NoLocals,
                                    NoContext, NoMessage)
             /\ ret' = HTTPException(400)
             /\ axiom' = axiom
        ELSE \E l \in {webhook_locals(body.payload)} :
             \E steps \in {<<"extract">> \o (IF l.monitor_name = <<>>
                                             THEN <<"warning">> ELSE <<>>)} :
                IF l.status = PyStr(W_resolved) /\ ~include_resolved
                THEN /\ call' = WebhookCall(header, body, "done",
                                            steps \o <<"skip">>, l, NoContext, NoMessage)
                     /\ ret' = OkResponse
                     /\ axiom' = axiom
                ELSE IF wants_rows(l)
                THEN /\ call' = WebhookCall(header, body, "query",
                                            steps \o <<"query">>, l, NoContext, NoMessage)
                     /\ ret' = ret
                     /\ axiom' = Append(axiom, Query(l))
                ELSE \E r \in {after_rows(l, <<>>)} :
                     /\ call' = WebhookCall(header, body, r.pc, steps \o r.steps,
                                            l, r.context, r.message)
                     /\ ret' = IF r.pc = "done" THEN r.ret ELSE ret
                     /\ axiom' = axiom
    /\ UNCHANGED <<settings, _routes, telegram, stop_event, auto_task>>

\* axiom_webhook from the reply to the enrichment query to send_message or
\* the response
axiom_webhook_rows ==
    /\ call.fn = "axiom_webhook"
    /\ call.pc = "query"
    /\ \E reply \in QueryReplies :
       \E rows \in {rows_of_reply(reply)} :
          IF rows.exc # "none"
          THEN /\ call' = [call EXCEPT !.pc = "done", !.reply = reply]
               /\ ret' = rows
          ELSE \E r \in {after_rows(call.l, rows.val)} :
               /\ call' = [call EXCEPT !.pc = r.pc, !.steps = @ \o r.steps,
                                       !.context = r.context,
                                       !.message = r.message, !.reply = reply]
               /\ ret' = IF r.pc = "done" THEN r.ret ELSE ret
    /\ UNCHANGED <<settings, _routes, telegram, axiom, stop_event, auto_task>>

\* axiom_webhook from the return of send_message to the response
axiom_webhook_send ==
    /\ call.fn = "axiom_webhook"
    /\ call.pc = "send"
    /\ \E outcome \in ApiOutcomes :
        /\ telegram' = IF call.message.target.chat_id = <<>> THEN telegram
                       ELSE Append(telegram, Posted(call.message))
        /\ call' = [call EXCEPT !.pc = "done", !.steps = @ \o <<"send">>,
                                !.ok = sent(call.message, outcome)]
        /\ ret' = OkResponse
    /\ UNCHANGED <<settings, _routes, axiom, stop_event, auto_task>>

\* local_alert from the request to the await of send_message
local_alert_request ==
    /\ call = NoCall
    /\ \E title \in LocalTitles, body \in {<<>>, S_b} :
        /\ call' = [fn |-> "local_alert", title |-> title, body |-> body,
                    pc |-> "send", steps |-> <<"route">>,
                    message |->
                       [target |->
                           resolve_target(
                               {IF In(<<":">>, title)
                                THEN strip(SubSeq(title, find(title, <<":">>) + 1,
                                                  Len(title)))
                                ELSE title}, {}, <<>>),
                        text |-> [title |-> title, body |-> body]],
                    ok |-> FALSE]
        /\ ret' = ret
    /\ UNCHANGED <<settings, _routes, telegram, axiom, stop_event, auto_task>>

\* local_alert from the return of send_message to the response
local_alert_send ==
    /\ call.fn = "local_alert"
    /\ call.pc = "send"
    /\ \E outcome \in ApiOutcomes :
        /\ telegram' = IF call.message.target.chat_id = <<>> THEN telegram
                       ELSE Append(telegram, Posted(call.message))
        /\ call' = [call EXCEPT !.pc = "done", !.steps = @ \o <<"send">>,
                                !.ok = sent(call.message, outcome)]
        /\ ret' = IF sent(call.message, outcome) THEN OkResponse
                  ELSE HTTPException(502)
    /\ UNCHANGED <<settings, _routes, axiom, stop_event, auto_task>>

NextWebhook ==
    \/ axiom_webhook_request
    \/ axiom_webhook_rows
    \/ axiom_webhook_send
    \/ local_alert_request
    \/ local_alert_send

SpecWebhook == InitWebhook /\ [][NextWebhook]_vars

\* the handler has answered
Answered == call.fn \in {"axiom_webhook", "local_alert"} /\ call.pc = "done"

WebhookTypeOK == call.fn \in {"none", "axiom_webhook", "local_alert"}

\* ---------------------------------------------------------------------
\* Delivery failure (C23)

\* the handler awaited send_message and it returned False
SendFailed ==
    /\ Answered
    /\ call.steps # <<>>
    /\ call.steps[Len(call.steps)] = "send"
    /\ ~call.ok

\* C23: on the local-alert endpoint and on the webhook endpoint, a failed
\* send is answered with a failure response, never with the success
\* response
C23_FailedSendReported == SendFailed => ret.exc # "none"

\* ---------------------------------------------------------------------
\* Missing monitor name (C24)

\* the webhook handler extracted the fields and found no monitor name
NoMonitorName ==
    /\ call.fn = "axiom_webhook"
    /\ call.steps # <<>>
    /\ call.l.monitor_name = <<>>

\* the destination of an alert that no route claims
GlobalDefault == IF NoRoutes THEN EnvTarget ELSE Target(DefaultGroup, DefaultTopic)

\* C24: with no recoverable monitor name the webhook handler logs a warning,
\* goes on with an empty monitor name and does not fail, and the destination
\* it resolves is the global default group and topic
C24_MissingNameFallsToDefaults ==
    NoMonitorName =>
        /\ call.steps[2] = "warning"
        /\ call.l.route_monitor = <<>>
        /\ call.pc = "done" => ret.exc = "none"
        /\ "route" \in Elems(call.steps) => call.message.target = GlobalDefault

\* ---------------------------------------------------------------------
\* Enrichment failure (C25)

\* replies that are a failure of the query: no answer, an error status, a
\* body that is no JSON, JSON that is not the object expected
FailedReplies ==
    {QueryTimeout, QueryErrorStatus, Reply_not_json, Reply_list,
     Reply_tables_int, Reply_table_int}

\* C25: the enrichment query is issued at most once per alert, and after a
\* failed query the handler stands where it would without the query: same
\* context, same message and destination, same response
C25_FailedQueryIsNoQuery ==
    /\ Len(axiom) <= 1
    /\ (call.fn = "axiom_webhook" /\ call.reply \in FailedReplies) =>
           \E r \in {after_rows(call.l, <<>>)} :
               /\ call.context = r.context
               /\ call.message = r.message
               /\ call.pc \in {r.pc, "done"}
               /\ (call.pc = "done" /\ r.pc = "done") => ret = r.ret
               /\ call.pc = "done" => ret.exc \notin {"TypeError", "AttributeError", "KeyError"}
               /\ (call.pc = "done" /\ r.pc = "send") => "send" \in Elems(call.steps)

\* ---------------------------------------------------------------------
\* Resolved alerts (C26)

\* include_resolved as routes.yml and the environment state it
IncludesResolved ==
    LET v == defaults_get("include_resolved")
    IN  CASE v = PyBool(TRUE) -> TRUE
          [] v = PyStr(<<"n", "o">>) -> FALSE
          [] v = PyStr(<<"Y", "e", "s", " ">>) -> TRUE
          [] OTHER -> settings.alertbot_include_resolved

\* the webhook handler extracted the fields of an alert
Extracted == call.fn = "axiom_webhook" /\ call.steps # <<>>

\* C26: a resolved alert with include_resolved false is answered with
\* success before any later step: no enrichment query, no drop, P1 or
\* runbook evaluation, no route resolution and no send; an alert with
\* status triggered or unknown, or with include_resolved true, is never
\* skipped
C26_ResolvedSkippedFirst ==
    Extracted =>
        IF call.l.status = PyStr(W_resolved) /\ ~IncludesResolved
        THEN /\ call.pc = "done"
             /\ ret = OkResponse
             /\ Elems(call.steps) \subseteq {"extract", "warning", "skip"}
             /\ axiom = <<>>
             /\ telegram = <<>>
        ELSE "skip" \notin Elems(call.steps)

\* a resolved alert whose match record names a service and has no message
\* is skipped although the enrichment is configured
C26_Witness ==
    /\ Extracted
    /\ call.l.status = PyStr(W_resolved)
    /\ call.l.fields.services # {}
    /\ call.l.fields.messages = <<>>
    /\ settings.axiom_mgmt_token # <<>>
    /\ defaults_get("include_resolved") = PyStr(<<"n", "o">>)
    /\ settings.alertbot_include_resolved
    /\ "skip" \in Elems(call.steps)

\* ---------------------------------------------------------------------
\* Drop before delivery (C27)

\* a drop rule matches the context
DropRuleMatches(context) ==
    any_rule_matches(_config_drop_rules, context) = Returns(TRUE)

\* the position of a step among the steps taken, 0 if it was not taken
StepAt(name) ==
    IF name \in Elems(call.steps)
    THEN CHOOSE i \in 1..Len(call.steps) : call.steps[i] = name
    ELSE 0

\* C27: an alert whose context a drop rule matches is answered with
\* success and neither classified nor routed nor sent; send_message is
\* invoked only for alerts that passed the resolved check and the drop check
C27_DropPrecedesDelivery ==
    /\ (Extracted /\ StepAt("drop") > 0 /\ DropRuleMatches(call.context)) =>
           /\ call.pc = "done"
           /\ ret = OkResponse
           /\ call.steps[Len(call.steps)] = "drop"
           /\ telegram = <<>>
    /\ (Extracted /\ (call.pc = "send" \/ StepAt("send") > 0)) =>
           /\ StepAt("skip") = 0
           /\ ~(call.l.status = PyStr(W_resolved) /\ ~IncludesResolved)
           /\ StepAt("drop") > 0
           /\ StepAt("drop") < StepAt("p1")
           /\ StepAt("p1") < StepAt("route")
           /\ ~DropRuleMatches(call.context)
    /\ (call.fn = "axiom_webhook" /\ telegram # <<>>) => StepAt("send") > 0

\* an alert with status 404 is dropped by the rule on status although a
\* route matches its service
C27_Witness ==
    /\ Extracted
    /\ DropRuleMatches(call.context)
    /\ call.context[F_status] = PyStr(S_404)
    /\ call.l.fields.services = {S_api_gateway}
    /\ Len(_routes.routes) > 0
    /\ call.pc = "done"

\* an alert that passed both checks was sent
C27_WitnessSent ==
    /\ Extracted
    /\ StepAt("send") > 0
    /\ Len(telegram) = 1
    /\ _config_drop_rules # <<>>

----------------------------------------------------------------------------
(* The auto-attach task: lifespan and _auto_attach_notifiers_loop.  The task
   runs from one await to the next in one step; auto_task.pc is the await
   it is suspended at, auto_task.cancelling holds from auto_task.cancel()
   until CancelledError is thrown into the task. *)

\* the passes a task makes before the model stops following new ones
MaxPasses == 3

\* what one call of _attach_notifiers_once ends with
PassOutcomes == {"updated", "nothing to update", "HTTPError", "Exception"}

InitLoop ==
    /\ _routes = BaseConfig
    /\ settings \in WebhookSettings
    /\ call = NoCall
    /\ ret = Returns(FALSE)
    /\ telegram = <<>>
    /\ axiom = <<>>
    /\ stop_event = FALSE
    /\ auto_task = NoTask

\* lifespan up to its yield: the event is created, and the task if a
\* management token is configured
lifespan_startup ==
    /\ call = NoCall
    /\ call' = [fn |-> "lifespan", pc |-> "yield"]
    /\ stop_event' = FALSE
    /\ auto_task' = IF settings.axiom_mgmt_token # <<>>
                    THEN [pc |-> "created", passes |-> 0, failed |-> 0,
                          cancelling |-> FALSE]
                    ELSE NoTask
    /\ UNCHANGED <<settings, _routes, ret, telegram, axiom>>

\* the task runs for the first time: the while test, then the await of
\* _attach_notifiers_once
loop_start ==
    /\ auto_task.pc = "created"
    /\ ~auto_task.cancelling
    /\ auto_task' = IF stop_event THEN [auto_task EXCEPT !.pc = "returned"]
                    ELSE [auto_task EXCEPT !.pc = "pass", !.passes = 1]
    /\ UNCHANGED <<settings, _routes, call, ret, telegram, axiom, stop_event>>

\* loop_pass_ends in which an exception of the pass leaves the loop
loop_pass_ends_uncaught ==
    /\ auto_task.pc = "pass"
    /\ ~auto_task.cancelling
    /\ \E outcome \in PassOutcomes :
        auto_task' = IF outcome \in {"HTTPError", "Exception"}
                     THEN [auto_task EXCEPT !.pc = "raised", !.failed = @ + 1]
                     ELSE [auto_task EXCEPT !.pc = "wait"]
    /\ UNCHANGED <<settings, _routes, call, ret, telegram, axiom, stop_event>>

\* _attach_notifiers_once returns or raises: both except clauses log, and
\* the task awaits wait_for(stop_event.wait(), timeout=...)
loop_pass_ends ==
    /\ auto_task.pc = "pass"
    /\ ~auto_task.cancelling
    /\ \E outcome \in PassOutcomes :
        auto_task' = [auto_task EXCEPT
                         !.pc = "wait",
                         !.failed = IF outcome \in {"HTTPError", "Exception"}
                                    THEN @ + 1 ELSE @]
    /\ UNCHANGED <<settings, _routes, call, ret, telegram, axiom, stop_event>>

\* wait_for ends: with the event set the while test ends the loop; on
\* TimeoutError the loop continues with the next pass
loop_wait_ends ==
    /\ auto_task.pc = "wait"
    /\ ~auto_task.cancelling
    /\ stop_event \/ auto_task.passes < MaxPasses
    /\ auto_task' = IF stop_event THEN [auto_task EXCEPT !.pc = "returned"]
                    ELSE [auto_task EXCEPT !.pc = "pass", !.passes = @ + 1]
    /\ UNCHANGED <<settings, _routes, call, ret, telegram, axiom, stop_event>>

\* CancelledError is thrown into the task at its await; it is no Exception,
\* so no except clause of the loop catches it
loop_cancelled ==
    /\ auto_task.pc \in {"created", "pass", "wait"}
    /\ auto_task.cancelling
    /\ auto_task' = [auto_task EXCEPT !.pc = "cancelled", !.cancelling = FALSE]
    /\ UNCHANGED <<settings, _routes, call, ret, telegram, axiom, stop_event>>

\* lifespan after its yield: stop_event.set() and auto_task.cancel(), then
\* the await of the task; nothing to do when no task was created
lifespan_shutdown ==
    /\ call.fn = "lifespan"
    /\ call.pc = "yield"
    /\ IF auto_task.pc = "none"
       THEN /\ call' = [call EXCEPT !.pc = "done"]
            /\ UNCHANGED <<stop_event, auto_task>>
       ELSE /\ call' = [call EXCEPT !.pc = "await"]
            /\ stop_event' = TRUE
            /\ auto_task' = [auto_task EXCEPT
                                !.cancelling = auto_task.pc \in {"created", "pass", "wait"}]
    /\ UNCHANGED <<settings, _routes, ret, telegram, axiom>>

\* await auto_task returns, or raises the CancelledError that is suppressed
lifespan_exit ==
    /\ call.fn = "lifespan"
    /\ call.pc = "await"
    /\ auto_task.pc \in {"returned", "cancelled", "raised"}
    /\ call' = [call EXCEPT !.pc = "done"]
    /\ UNCHANGED <<settings, _routes, ret, telegram, axiom, stop_event, auto_task>>

NextLoop ==
    \/ lifespan_startup
    \/ loop_start
    \/ loop_pass_ends
    \/ loop_wait_ends
    \/ loop_cancelled
    \/ lifespan_shutdown
    \/ lifespan_exit

SpecLoop == InitLoop /\ [][NextLoop]_vars

\* ---------------------------------------------------------------------
\* The auto-attach loop (C28)

\* the task has ended
Ended(task) == task.pc \in {"returned", "cancelled", "raised"}

\* C28: a pass that ends, with or without an exception, is followed by the
\* interval wait, and the wait by the next pass; the task ends only with
\* stop_event set or by its cancellation, and starts no pass after that; at
\* shutdown lifespan sets the event, cancels the task and ends only after
\* the task has ended
C28_LoopSurvivesFailedPass ==
    [][/\ (auto_task.pc = "pass" /\ auto_task'.pc # "pass") =>
              \/ auto_task'.pc = "wait" /\ auto_task'.passes = auto_task.passes
              \/ auto_task'.pc = "cancelled" /\ auto_task.cancelling
       /\ (auto_task.pc = "wait" /\ auto_task'.pc # "wait") =>
              \/ auto_task'.pc = "pass" /\ auto_task'.passes = auto_task.passes + 1
                     /\ ~stop_event
              \/ auto_task'.pc = "returned" /\ stop_event
              \/ auto_task'.pc = "cancelled" /\ auto_task.cancelling
       /\ Ended(auto_task') => stop_event'
       /\ (stop_event \/ Ended(auto_task)) =>
              /\ auto_task'.passes = auto_task.passes
              /\ auto_task'.pc # "pass" \/ auto_task.pc = "pass"
       /\ (call.fn = "lifespan" /\ call.pc = "yield" /\ call'.pc # "yield"
               /\ auto_task.pc # "none") =>
              /\ stop_event'
              /\ Ended(auto_task) \/ auto_task'.cancelling
              /\ call'.pc = "await"
       /\ (call.fn = "lifespan" /\ call'.pc = "done" /\ auto_task.pc # "none") =>
              Ended(auto_task')
      ]_vars

\* a pass failed, a later pass ran, and the shutdown has ended the task
C28_Witness ==
    /\ auto_task.failed >= 1
    /\ auto_task.passes > auto_task.failed
    /\ auto_task.pc = "cancelled"
    /\ stop_event
    /\ call.fn = "lifespan"
    /\ call.pc = "done"

====
